---------------------------- MODULE Spec2Model ----------------------------
(***************************************************************************)
(* Emotion-aware dialogue core of PyDew Valley (GatorAI Camp 2025):        *)
(*   - the emotion history buffer (collections.deque(maxlen=5)),           *)
(*   - the sensing thread that appends to it (EmotionDetector.run),        *)
(*   - the dialogue client (AIDialogueManager),                            *)
(*   - the dialogue session (DialogueSystem) and its use by Level.         *)
(* Texts are sequences of one-character strings, so that substring tests,  *)
(* strip(), split(" ") and wrapping are computed as Python computes them.  *)
(***************************************************************************)
EXTENDS Integers, Sequences, FiniteSets, TLC

(***************************************************************************)
(* Bounds of the model                                                     *)
(***************************************************************************)
\* number of appends the buffer test performs
MaxPushes == 6

\* number of EmotionDetector threads ever created in one run of the game
MaxDetectors == 2

\* longest text given to _wrap_text on its own
MaxTextLen == 9

\* nested calls of end_dialogue after which Python raises RecursionError
RecursionLimit == 3

(***************************************************************************)
(* Text literals of the source, character by character                     *)
(***************************************************************************)
KW_MERCHANT_PETE ==
    <<"M", "e", "r", "c", "h", "a", "n", "t", " ", "P", "e", "t", "e">>

KW_RICH ==
    <<"r", "i", "c", "h">>

KW_NEW ==
    <<"n", "e", "w">>

KW_STARTING ==
    <<"s", "t", "a", "r", "t", "i", "n", "g">>

PETE_HAPPY ==
    <<"I", " ", "c", "a", "n", " ", "s", "e", "e", " ", "y", "o", "u", "'", "r", "e", " ", "i", "n", " ", "g", "r", "e", "a", "t", " ", "s", "p", "i", "r", "i", "t", "s", " ", "t", "o", "d", "a", "y", "!", " ", "T", "h", "a", "t", " ", "p", "o", "s", "i", "t", "i", "v", "e", " ", "e", "n", "e", "r", "g", "y", " ", "w", "i", "l", "l", " ", "h", "e", "l", "p", " ", "y", "o", "u", "r", " ", "c", "r", "o", "p", "s", " ", "g", "r", "o", "w", " ", "b", "e", "a", "u", "t", "i", "f", "u", "l", "l", "y", ".", " ", "W", "h", "a", "t", " ", "c", "a", "n", " ", "I", " ", "g", "e", "t", " ", "y", "o", "u", "?">>

PETE_SAD ==
    <<"I", " ", "n", "o", "t", "i", "c", "e", " ", "y", "o", "u", " ", "s", "e", "e", "m", " ", "a", " ", "b", "i", "t", " ", "d", "o", "w", "n", ",", " ", "f", "r", "i", "e", "n", "d", ".", " ", "R", "e", "m", "e", "m", "b", "e", "r", ",", " ", "e", "v", "e", "r", "y", " ", "f", "a", "r", "m", "e", "r", " ", "h", "a", "s", " ", "t", "o", "u", "g", "h", " ", "d", "a", "y", "s", ",", " ", "b", "u", "t", " ", "I", "'", "v", "e", " ", "g", "o", "t", " ", "j", "u", "s", "t", " ", "t", "h", "e", " ", "t", "h", "i", "n", "g", "s", " ", "t", "o", " ", "b", "r", "i", "g", "h", "t", "e", "n", " ", "y", "o", "u", "r", " ", "m", "o", "o", "d", "!">>

PETE_ANGRY ==
    <<"T", "a", "k", "e", " ", "a", " ", "d", "e", "e", "p", " ", "b", "r", "e", "a", "t", "h", ",", " ", "f", "r", "i", "e", "n", "d", ".", " ", "F", "a", "r", "m", "i", "n", "g", " ", "c", "a", "n", " ", "b", "e", " ", "f", "r", "u", "s", "t", "r", "a", "t", "i", "n", "g", " ", "s", "o", "m", "e", "t", "i", "m", "e", "s", ",", " ", "b", "u", "t", " ", "y", "o", "u", "'", "r", "e", " ", "d", "o", "i", "n", "g", " ", "b", "e", "t", "t", "e", "r", " ", "t", "h", "a", "n", " ", "y", "o", "u", " ", "t", "h", "i", "n", "k", ".", " ", "L", "e", "t", " ", "m", "e", " ", "h", "e", "l", "p", " ", "y", "o", "u", " ", "o", "u", "t", ".">>

PETE_SURPRISED ==
    <<"Y", "o", "u", " ", "l", "o", "o", "k", " ", "a", "m", "a", "z", "e", "d", "!", " ", "T", "h", "e", "r", "e", "'", "s", " ", "a", "l", "w", "a", "y", "s", " ", "s", "o", "m", "e", "t", "h", "i", "n", "g", " ", "w", "o", "n", "d", "e", "r", "f", "u", "l", " ", "t", "o", " ", "d", "i", "s", "c", "o", "v", "e", "r", " ", "i", "n", " ", "f", "a", "r", "m", "i", "n", "g", ".", " ", "I", "'", "v", "e", " ", "g", "o", "t", " ", "s", "o", "m", "e", " ", "i", "n", "t", "e", "r", "e", "s", "t", "i", "n", "g", " ", "i", "t", "e", "m", "s", " ", "y", "o", "u", " ", "m", "i", "g", "h", "t", " ", "l", "i", "k", "e", "!">>

PETE_FEARFUL ==
    <<"D", "o", "n", "'", "t", " ", "w", "o", "r", "r", "y", ",", " ", "y", "o", "u", "'", "r", "e", " ", "s", "a", "f", "e", " ", "h", "e", "r", "e", " ", "w", "i", "t", "h", " ", "m", "e", ".", " ", "F", "a", "r", "m", "i", "n", "g", " ", "c", "a", "n", " ", "f", "e", "e", "l", " ", "o", "v", "e", "r", "w", "h", "e", "l", "m", "i", "n", "g", " ", "a", "t", " ", "f", "i", "r", "s", "t", ",", " ", "b", "u", "t", " ", "I", "'", "l", "l", " ", "h", "e", "l", "p", " ", "y", "o", "u", " ", "g", "e", "t", " ", "w", "h", "a", "t", " ", "y", "o", "u", " ", "n", "e", "e", "d", ".">>

PETE_RICH ==
    <<"W", "e", "l", "c", "o", "m", "e", " ", "b", "a", "c", "k", ",", " ", "e", "s", "t", "e", "e", "m", "e", "d", " ", "f", "a", "r", "m", "e", "r", "!", " ", "Y", "o", "u", "r", " ", "s", "u", "c", "c", "e", "s", "s", " ", "i", "s", " ", "i", "m", "p", "r", "e", "s", "s", "i", "v", "e", ".", " ", "I", " ", "h", "a", "v", "e", " ", "s", "o", "m", "e", " ", "p", "r", "e", "m", "i", "u", "m", " ", "i", "t", "e", "m", "s", " ", "t", "h", "a", "t", " ", "m", "i", "g", "h", "t", " ", "i", "n", "t", "e", "r", "e", "s", "t", " ", "y", "o", "u", ".">>

PETE_NEW ==
    <<"H", "e", "l", "l", "o", " ", "t", "h", "e", "r", "e", "!", " ", "N", "e", "w", " ", "t", "o", " ", "f", "a", "r", "m", "i", "n", "g", "?", " ", "D", "o", "n", "'", "t", " ", "w", "o", "r", "r", "y", ",", " ", "I", "'", "v", "e", " ", "g", "o", "t", " ", "j", "u", "s", "t", " ", "t", "h", "e", " ", "t", "o", "o", "l", "s", " ", "a", "n", "d", " ", "s", "e", "e", "d", "s", " ", "t", "o", " ", "g", "e", "t", " ", "y", "o", "u", " ", "s", "t", "a", "r", "t", "e", "d", " ", "o", "n", " ", "y", "o", "u", "r", " ", "a", "d", "v", "e", "n", "t", "u", "r", "e", "!">>

PETE_DEFAULT ==
    <<"W", "e", "l", "c", "o", "m", "e", "!", " ", "I", "t", "'", "s", " ", "a", " ", "f", "i", "n", "e", " ", "d", "a", "y", " ", "f", "o", "r", " ", "f", "a", "r", "m", "i", "n", "g", ",", " ", "i", "s", "n", "'", "t", " ", "i", "t", "?", " ", "L", "e", "t", " ", "m", "e", " ", "k", "n", "o", "w", " ", "i", "f", " ", "y", "o", "u", " ", "n", "e", "e", "d", " ", "a", "n", "y", "t", "h", "i", "n", "g", ".">>

NPC_HAPPY ==
    <<"I", " ", "c", "a", "n", " ", "s", "e", "e", " ", "y", "o", "u", "'", "r", "e", " ", "h", "a", "v", "i", "n", "g", " ", "a", " ", "g", "r", "e", "a", "t", " ", "d", "a", "y", "!", " ", "H", "o", "w", " ", "w", "o", "n", "d", "e", "r", "f", "u", "l", "!">>

NPC_SAD ==
    <<"Y", "o", "u", " ", "s", "e", "e", "m", " ", "a", " ", "b", "i", "t", " ", "d", "o", "w", "n", ",", " ", "f", "r", "i", "e", "n", "d", ".", " ", "I", " ", "h", "o", "p", "e", " ", "t", "h", "i", "n", "g", "s", " ", "l", "o", "o", "k", " ", "u", "p", " ", "s", "o", "o", "n", "!">>

NPC_DEFAULT ==
    <<"H", "e", "l", "l", "o", " ", "t", "h", "e", "r", "e", "!", " ", "N", "i", "c", "e", " ", "t", "o", " ", "s", "e", "e", " ", "y", "o", "u", " ", "a", "r", "o", "u", "n", "d", " ", "t", "h", "e", " ", "f", "a", "r", "m", " ", "t", "o", "d", "a", "y", ".">>

STATIC_TRADER ==
    <<"W", "e", "l", "c", "o", "m", "e", ",", " ", "f", "r", "i", "e", "n", "d", "!", " ", "I", " ", "h", "a", "v", "e", " ", "m", "a", "n", "y", " ", "f", "i", "n", "e", " ", "g", "o", "o", "d", "s", " ", "f", "o", "r", " ", "a", " ", "h", "a", "r", "d", "w", "o", "r", "k", "i", "n", "g", " ", "f", "a", "r", "m", "e", "r", " ", "l", "i", "k", "e", " ", "y", "o", "u", ".", " ", "L", "e", "t", "'", "s", " ", "s", "e", "e", " ", "w", "h", "a", "t", " ", "y", "o", "u", " ", "n", "e", "e", "d", ".">>

STATIC_DEFAULT ==
    <<"H", "e", "l", "l", "o", " ", "t", "h", "e", "r", "e", "!", " ", "N", "i", "c", "e", " ", "d", "a", "y", " ", "f", "o", "r", " ", "f", "a", "r", "m", "i", "n", "g", ".">>

NO_DIALOGUE ==
    <<"N", "o", " ", "d", "i", "a", "l", "o", "g", "u", "e", " ", "a", "v", "a", "i", "l", "a", "b", "l", "e", ".">>

SITUATION_RICH ==
    <<"p", "l", "a", "y", "e", "r", " ", "h", "a", "s", " ", "l", "o", "t", "s", " ", "o", "f", " ", "m", "o", "n", "e", "y", " ", "a", "n", "d", " ", "i", "s", " ", "d", "o", "i", "n", "g", " ", "w", "e", "l", "l", " ", "f", "a", "r", "m", "i", "n", "g">>

SITUATION_POOR ==
    <<"p", "l", "a", "y", "e", "r", " ", "i", "s", " ", "j", "u", "s", "t", " ", "s", "t", "a", "r", "t", "i", "n", "g", " ", "o", "u", "t", " ", "a", "n", "d", " ", "h", "a", "s", " ", "l", "i", "m", "i", "t", "e", "d", " ", "f", "u", "n", "d", "s">>

SITUATION_STEADY ==
    <<"p", "l", "a", "y", "e", "r", " ", "i", "s", " ", "m", "a", "k", "i", "n", "g", " ", "s", "t", "e", "a", "d", "y", " ", "p", "r", "o", "g", "r", "e", "s", "s", " ", "w", "i", "t", "h", " ", "t", "h", "e", "i", "r", " ", "f", "a", "r", "m">>

DEFAULT_SITUATION ==
    <<"m", "e", "e", "t", "i", "n", "g", " ", "y", "o", "u">>

DEFAULT_NPC_NAME ==
    <<"N", "P", "C">>

SCENARIO_SITUATION ==
    <<"p", "l", "a", "y", "e", "r", " ", "i", "s", " ", "j", "u", "s", "t", " ", "s", "t", "a", "r", "t", "i", "n", "g", " ", "o", "u", "t">>

TXT_RICH_AND_NEW ==
    <<"a", " ", "n", "e", "w", " ", "b", "u", "t", " ", "r", "i", "c", "h", " ", "f", "a", "r", "m", "e", "r">>

TXT_OLD_PETE ==
    <<"O", "l", "d", " ", "M", "e", "r", "c", "h", "a", "n", "t", " ", "P", "e", "t", "e">>

TXT_REPLY ==
    <<" ", " ", "H", "o", "w", "d", "y", ",", " ", "f", "a", "r", "m", "e", "r", "!", "\n">>

TXT_BLANKS ==
    <<" ", "\n", "\t", " ">>

TXT_TWO_PAGE_REPLY ==
    <<"W", "e", "l", "l", " ", "n", "o", "w", ",", " ", "f", "r", "i", "e", "n", "d", ",", " ", "p", "u", "l", "l", " ", "u", "p", " ", "a", " ", "c", "r", "a", "t", "e", " ", "a", "n", "d", " ", "l", "e", "t", " ", "m", "e", " ", "t", "e", "l", "l", " ", "y", "o", "u", " ", "w", "h", "a", "t", " ", "c", "a", "m", "e", " ", "i", "n", " ", "o", "n", " ", "t", "h", "e", " ", "m", "o", "r", "n", "i", "n", "g", " ", "c", "a", "r", "t", ".", " ", "T", "h", "e", "r", "e", " ", "a", "r", "e", " ", "t", "u", "r", "n", "i", "p", " ", "s", "e", "e", "d", "s", " ", "f", "r", "o", "m", " ", "t", "h", "e", " ", "v", "a", "l", "l", "e", "y", ",", " ", "a", " ", "s", "a", "c", "k", " ", "o", "f", " ", "c", "o", "r", "n", " ", "t", "h", "a", "t", " ", "s", "p", "r", "o", "u", "t", "s", " ", "i", "n", " ", "a", "n", "y", " ", "w", "e", "a", "t", "h", "e", "r", ",", " ", "a", "n", "d", " ", "a", " ", "w", "a", "t", "e", "r", "i", "n", "g", " ", "c", "a", "n", " ", "t", "h", "a", "t", " ", "n", "e", "v", "e", "r", " ", "s", "e", "e", "m", "s", " ", "t", "o", " ", "l", "e", "a", "k", ".", " ", "T", "h", "e", " ", "o", "l", "d", " ", "m", "i", "l", "l", " ", "i", "s", " ", "g", "r", "i", "n", "d", "i", "n", "g", " ", "a", "g", "a", "i", "n", ",", " ", "s", "o", " ", "f", "l", "o", "u", "r", " ", "i", "s", " ", "c", "h", "e", "a", "p", " ", "t", "h", "i", "s", " ", "w", "e", "e", "k", ",", " ", "a", "n", "d", " ", "t", "h", "e", " ", "h", "e", "n", "s", " ", "b", "e", "h", "i", "n", "d", " ", "m", "y", " ", "s", "t", "a", "l", "l", " ", "h", "a", "v", "e", " ", "b", "e", "e", "n", " ", "l", "a", "y", "i", "n", "g", " ", "m", "o", "r", "e", " ", "e", "g", "g", "s", " ", "t", "h", "a", "n", " ", "I", " ", "c", "a", "n", " ", "c", "o", "u", "n", "t", ".", " ", "I", "f", " ", "y", "o", "u", "r", " ", "f", "i", "e", "l", "d", "s", " ", "a", "r", "e", " ", "d", "r", "y", ",", " ", "t", "a", "k", "e", " ", "t", "h", "e", " ", "l", "o", "n", "g", " ", "h", "o", "s", "e", ",", " ", "a", "n", "d", " ", "i", "f", " ", "y", "o", "u", "r", " ", "p", "o", "c", "k", "e", "t", "s", " ", "a", "r", "e", " ", "l", "i", "g", "h", "t", ",", " ", "d", "o", " ", "n", "o", "t", " ", "w", "o", "r", "r", "y", ",", " ", "w", "e", " ", "c", "a", "n", " ", "s", "e", "t", "t", "l", "e", " ", "u", "p", " ", "a", "f", "t", "e", "r", " ", "t", "h", "e", " ", "h", "a", "r", "v", "e", "s", "t", ".", " ", "A", " ", "f", "a", "r", "m", "e", "r", " ", "w", "h", "o", " ", "k", "e", "e", "p", "s", " ", "a", "t", " ", "i", "t", " ", "t", "h", "r", "o", "u", "g", "h", " ", "t", "h", "e", " ", "r", "a", "i", "n", " ", "a", "n", "d", " ", "t", "h", "e", " ", "f", "r", "o", "s", "t", " ", "a", "l", "w", "a", "y", "s", " ", "c", "o", "m", "e", "s", " ", "o", "u", "t", " ", "a", "h", "e", "a", "d", " ", "i", "n", " ", "t", "h", "e", " ", "e", "n", "d", ",", " ", "m", "a", "r", "k", " ", "m", "y", " ", "w", "o", "r", "d", "s", ".", " ", "N", "o", "w", " ", "t", "h", "e", "n", ",", " ", "w", "h", "a", "t", " ", "w", "i", "l", "l", " ", "i", "t", " ", "b", "e", " ", "t", "o", "d", "a", "y", ",", " ", "s", "e", "e", "d", "s", ",", " ", "t", "o", "o", "l", "s", ",", " ", "o", "r", " ", "j", "u", "s", "t", " ", "a", " ", "b", "i", "t", " ", "o", "f", " ", "f", "r", "i", "e", "n", "d", "l", "y", " ", "t", "a", "l", "k", " ", "b", "e", "f", "o", "r", "e", " ", "y", "o", "u", " ", "h", "e", "a", "d", " ", "b", "a", "c", "k", " ", "t", "o", " ", "t", "h", "e", " ", "f", "a", "r", "m", "?">>

TXT_THREE_PAGE_REPLY ==
    <<"W", "e", "l", "l", " ", "n", "o", "w", ",", " ", "f", "r", "i", "e", "n", "d", ",", " ", "p", "u", "l", "l", " ", "u", "p", " ", "a", " ", "c", "r", "a", "t", "e", " ", "a", "n", "d", " ", "l", "e", "t", " ", "m", "e", " ", "t", "e", "l", "l", " ", "y", "o", "u", " ", "w", "h", "a", "t", " ", "c", "a", "m", "e", " ", "i", "n", " ", "o", "n", " ", "t", "h", "e", " ", "m", "o", "r", "n", "i", "n", "g", " ", "c", "a", "r", "t", ".", " ", "T", "h", "e", "r", "e", " ", "a", "r", "e", " ", "t", "u", "r", "n", "i", "p", " ", "s", "e", "e", "d", "s", " ", "f", "r", "o", "m", " ", "t", "h", "e", " ", "v", "a", "l", "l", "e", "y", ",", " ", "a", " ", "s", "a", "c", "k", " ", "o", "f", " ", "c", "o", "r", "n", " ", "t", "h", "a", "t", " ", "s", "p", "r", "o", "u", "t", "s", " ", "i", "n", " ", "a", "n", "y", " ", "w", "e", "a", "t", "h", "e", "r", ",", " ", "a", "n", "d", " ", "a", " ", "w", "a", "t", "e", "r", "i", "n", "g", " ", "c", "a", "n", " ", "t", "h", "a", "t", " ", "n", "e", "v", "e", "r", " ", "s", "e", "e", "m", "s", " ", "t", "o", " ", "l", "e", "a", "k", ".", " ", "T", "h", "e", " ", "o", "l", "d", " ", "m", "i", "l", "l", " ", "i", "s", " ", "g", "r", "i", "n", "d", "i", "n", "g", " ", "a", "g", "a", "i", "n", ",", " ", "s", "o", " ", "f", "l", "o", "u", "r", " ", "i", "s", " ", "c", "h", "e", "a", "p", " ", "t", "h", "i", "s", " ", "w", "e", "e", "k", ",", " ", "a", "n", "d", " ", "t", "h", "e", " ", "h", "e", "n", "s", " ", "b", "e", "h", "i", "n", "d", " ", "m", "y", " ", "s", "t", "a", "l", "l", " ", "h", "a", "v", "e", " ", "b", "e", "e", "n", " ", "l", "a", "y", "i", "n", "g", " ", "m", "o", "r", "e", " ", "e", "g", "g", "s", " ", "t", "h", "a", "n", " ", "I", " ", "c", "a", "n", " ", "c", "o", "u", "n", "t", ".", " ", "I", "f", " ", "y", "o", "u", "r", " ", "f", "i", "e", "l", "d", "s", " ", "a", "r", "e", " ", "d", "r", "y", ",", " ", "t", "a", "k", "e", " ", "t", "h", "e", " ", "l", "o", "n", "g", " ", "h", "o", "s", "e", ",", " ", "a", "n", "d", " ", "i", "f", " ", "y", "o", "u", "r", " ", "p", "o", "c", "k", "e", "t", "s", " ", "a", "r", "e", " ", "l", "i", "g", "h", "t", ",", " ", "d", "o", " ", "n", "o", "t", " ", "w", "o", "r", "r", "y", ",", " ", "w", "e", " ", "c", "a", "n", " ", "s", "e", "t", "t", "l", "e", " ", "u", "p", " ", "a", "f", "t", "e", "r", " ", "t", "h", "e", " ", "h", "a", "r", "v", "e", "s", "t", ".", " ", "A", " ", "f", "a", "r", "m", "e", "r", " ", "w", "h", "o", " ", "k", "e", "e", "p", "s", " ", "a", "t", " ", "i", "t", " ", "t", "h", "r", "o", "u", "g", "h", " ", "t", "h", "e", " ", "r", "a", "i", "n", " ", "a", "n", "d", " ", "t", "h", "e", " ", "f", "r", "o", "s", "t", " ", "a", "l", "w", "a", "y", "s", " ", "c", "o", "m", "e", "s", " ", "o", "u", "t", " ", "a", "h", "e", "a", "d", " ", "i", "n", " ", "t", "h", "e", " ", "e", "n", "d", ",", " ", "m", "a", "r", "k", " ", "m", "y", " ", "w", "o", "r", "d", "s", ".", " ", "N", "o", "w", " ", "t", "h", "e", "n", ",", " ", "w", "h", "a", "t", " ", "w", "i", "l", "l", " ", "i", "t", " ", "b", "e", " ", "t", "o", "d", "a", "y", ",", " ", "s", "e", "e", "d", "s", ",", " ", "t", "o", "o", "l", "s", ",", " ", "o", "r", " ", "j", "u", "s", "t", " ", "a", " ", "b", "i", "t", " ", "o", "f", " ", "f", "r", "i", "e", "n", "d", "l", "y", " ", "t", "a", "l", "k", " ", "b", "e", "f", "o", "r", "e", " ", "y", "o", "u", " ", "h", "e", "a", "d", " ", "b", "a", "c", "k", " ", "t", "o", " ", "t", "h", "e", " ", "f", "a", "r", "m", "?", " ", "I", " ", "n", "e", "a", "r", "l", "y", " ", "f", "o", "r", "g", "o", "t", " ", "t", "h", "e", " ", "b", "e", "s", "t", " ", "p", "a", "r", "t", ":", " ", "t", "h", "e", " ", "b", "e", "e", "k", "e", "e", "p", "e", "r", " ", "u", "p", " ", "t", "h", "e", " ", "h", "i", "l", "l", " ", "t", "r", "a", "d", "e", "d", " ", "m", "e", " ", "s", "i", "x", " ", "j", "a", "r", "s", " ", "o", "f", " ", "c", "l", "o", "v", "e", "r", " ", "h", "o", "n", "e", "y", ",", " ", "a", "n", "d", " ", "t", "h", "e", " ", "s", "m", "i", "t", "h", " ", "s", "h", "a", "r", "p", "e", "n", "e", "d", " ", "e", "v", "e", "r", "y", " ", "h", "o", "e", " ", "a", "n", "d", " ", "a", "x", "e", " ", "o", "n", " ", "m", "y", " ", "s", "h", "e", "l", "f", ".", " ", "T", "a", "k", "e", " ", "y", "o", "u", "r", " ", "t", "i", "m", "e", " ", "a", "n", "d", " ", "l", "o", "o", "k", " ", "a", "r", "o", "u", "n", "d", ",", " ", "t", "h", "e", "r", "e", " ", "i", "s", " ", "n", "o", " ", "h", "u", "r", "r", "y", " ", "a", "t", " ", "a", "l", "l", " ", "o", "n", " ", "a", " ", "d", "a", "y", " ", "l", "i", "k", "e", " ", "t", "h", "i", "s", " ", "o", "n", "e", ".">>

(***************************************************************************)
(* Python string operations                                                *)
(***************************************************************************)
\* characters removed by str.strip() that occur in the modelled texts
Whitespace == {" ", "\t", "\n"}

\* sub in s
Contains(sub, s) ==
    \E i \in 1..(Len(s) - Len(sub) + 1) : SubSeq(s, i, i + Len(sub) - 1) = sub

\* s.strip(): s without its leading and trailing whitespace
Strip(s) ==
    IF \A i \in 1..Len(s) : s[i] \in Whitespace THEN <<>>
    ELSE LET lo == CHOOSE i \in 1..Len(s) :
                       /\ s[i] \notin Whitespace
                       /\ \A j \in 1..(i - 1) : s[j] \in Whitespace
             hi == CHOOSE i \in 1..Len(s) :
                       /\ s[i] \notin Whitespace
                       /\ \A j \in (i + 1)..Len(s) : s[j] \in Whitespace
         IN  SubSeq(s, lo, hi)

\* bool(s) of a string
Truthy(s) == Len(s) > 0

(***************************************************************************)
(* Exceptions: the kinds the modelled calls raise, all subclasses of       *)
(* Exception; "none" is normal completion                                  *)
(***************************************************************************)
ExceptionSubclasses ==
    {"FileNotFoundError", "PermissionError", "JSONDecodeError",
     "AttributeError", "IndexError", "APIConnectionError", "APITimeoutError",
     "OpenAIError", "RuntimeError", "ConnectionError"}

\* does a try statement with these except clauses catch exc
Caught(exc, handlers) ==
    \/ exc \in handlers
    \/ "Exception" \in handlers /\ exc \in ExceptionSubclasses

(***************************************************************************)
(* AIDialogueManager: credentials and initialization                       *)
(***************************************************************************)
\* data.get(key): None when the key is absent
DictGet(data, key) ==
    IF key \in DOMAIN data THEN [some |-> TRUE, v |-> data[key]]
                           ELSE [some |-> FALSE, v |-> <<>>]

\* not value, for a value that is None or a string
Falsy(value) == ~value.some \/ ~Truthy(value.v)

\* the exception open(), json.load() or data.get() raises on this file
CredentialsException(file) ==
    CASE file.kind = "absent"       -> "FileNotFoundError"
      [] file.kind = "unreadable"   -> "PermissionError"
      [] file.kind = "invalid_json" -> "JSONDecodeError"
      [] file.kind = "not_object"   -> "AttributeError"
      [] OTHER                      -> "none"

LoadHandlers_NoCatchAll == {"FileNotFoundError", "JSONDecodeError"}

\* the except clauses of _load_api_credentials
LoadHandlers == {"FileNotFoundError", "JSONDecodeError", "Exception"}

\* _load_api_credentials: some = FALSE is the None result
LoadApiCredentials(file) ==
    LET exc      == CredentialsException(file)
        api_key  == DictGet(file.data, "OPENAI_API_KEY")
        base_url == DictGet(file.data, "base_url")
        none     == [raised |-> "none", some |-> FALSE,
                     api_key |-> <<>>, base_url |-> <<>>]
    IN  IF exc # "none"
        THEN IF Caught(exc, LoadHandlers) THEN none
             ELSE [none EXCEPT !.raised = exc]
        ELSE IF Falsy(api_key) \/ Falsy(base_url) THEN none
             ELSE [raised |-> "none", some |-> TRUE,
                   api_key |-> api_key.v, base_url |-> base_url.v]

\* the except clause around openai.OpenAI(...)
ConstructHandlers == {"Exception"}

\* AIDialogueManager.__init__: client is TRUE when self.client is an
\* openai.OpenAI object, FALSE when it is None
ManagerInit(openai_available, file, construct_exc) ==
    LET offline == [raised |-> "none", client |-> FALSE, fallback_mode |-> TRUE]
        creds   == LoadApiCredentials(file)
    IN  IF ~openai_available THEN offline
        ELSE IF creds.raised # "none" THEN [offline EXCEPT !.raised = creds.raised]
        ELSE IF ~creds.some THEN offline
        ELSE IF construct_exc = "none"
             THEN [raised |-> "none", client |-> TRUE, fallback_mode |-> FALSE]
        ELSE IF Caught(construct_exc, ConstructHandlers) THEN offline
        ELSE [offline EXCEPT !.raised = construct_exc]

(***************************************************************************)
(* AIDialogueManager: the offline rule table and generate_npc_dialogue     *)
(***************************************************************************)
GetFallbackDialogue_NewBeforeRich(character_name, player_context, emotion) ==
    IF Contains(KW_MERCHANT_PETE, character_name)
    THEN CASE emotion = "happy"     -> PETE_HAPPY
           [] emotion = "sad"       -> PETE_SAD
           [] emotion = "angry"     -> PETE_ANGRY
           [] emotion = "surprised" -> PETE_SURPRISED
           [] emotion = "fearful"   -> PETE_FEARFUL
           [] OTHER ->
                IF \/ Contains(KW_NEW, player_context)
                   \/ Contains(KW_STARTING, player_context) THEN PETE_NEW
                ELSE IF Contains(KW_RICH, player_context) THEN PETE_RICH
                ELSE PETE_DEFAULT
    ELSE CASE emotion = "happy" -> NPC_HAPPY
           [] emotion = "sad"   -> NPC_SAD
           [] OTHER             -> NPC_DEFAULT

\* _get_fallback_dialogue
GetFallbackDialogue(character_name, player_context, emotion) ==
    IF Contains(KW_MERCHANT_PETE, character_name)
    THEN CASE emotion = "happy"     -> PETE_HAPPY
           [] emotion = "sad"       -> PETE_SAD
           [] emotion = "angry"     -> PETE_ANGRY
           [] emotion = "surprised" -> PETE_SURPRISED
           [] emotion = "fearful"   -> PETE_FEARFUL
           [] OTHER ->
                IF Contains(KW_RICH, player_context) THEN PETE_RICH
                ELSE IF \/ Contains(KW_NEW, player_context)
                        \/ Contains(KW_STARTING, player_context) THEN PETE_NEW
                ELSE PETE_DEFAULT
    ELSE CASE emotion = "happy" -> NPC_HAPPY
           [] emotion = "sad"   -> NPC_SAD
           [] OTHER             -> NPC_DEFAULT

\* the exception self.client.chat.completions.create(...) or
\* response.choices[0].message.content.strip() raises on this remote outcome
RemoteException(remote) ==
    CASE remote.kind = "transport_error" -> "APIConnectionError"
      [] remote.kind = "timeout"         -> "APITimeoutError"
      [] remote.kind = "no_choices"      -> "IndexError"
      [] remote.kind = "null_content"    -> "AttributeError"
      [] OTHER                           -> "none"

GenerateHandlers_TransportOnly == {"APIConnectionError", "APITimeoutError"}

\* the except clause around the remote request
GenerateHandlers == {"Exception"}

GenerateNpcDialogue_RoleSensitive(manager, character_name, character_role, player_context, emotion, remote) ==
    LET fallback == [raised |-> "none",
                     text |-> IF character_role = "friendly trader"
                              THEN GetFallbackDialogue(character_name,
                                                       player_context, emotion)
                              ELSE GetFallbackDialogue(DEFAULT_NPC_NAME,
                                                       player_context, emotion)]
        exc == RemoteException(remote)
    IN  IF manager.fallback_mode \/ ~manager.client THEN fallback
        ELSE IF exc = "none"
             THEN [raised |-> "none", text |-> Strip(remote.content)]
        ELSE IF Caught(exc, GenerateHandlers) THEN fallback
        ELSE [raised |-> exc, text |-> <<>>]

\* generate_npc_dialogue; raised = "none" is a normal return of text
GenerateNpcDialogue(manager, character_name, character_role, player_context, emotion, remote) ==
    LET fallback == [raised |-> "none",
                     text |-> GetFallbackDialogue(character_name,
                                                  player_context, emotion)]
        exc == RemoteException(remote)
    IN  IF manager.fallback_mode \/ ~manager.client THEN fallback
        ELSE IF exc = "none"
             THEN [raised |-> "none", text |-> Strip(remote.content)]
        ELSE IF Caught(exc, GenerateHandlers) THEN fallback
        ELSE [raised |-> exc, text |-> <<>>]


(***************************************************************************)
(* The emotion vocabularies of the overlay and of the dialogue client      *)
(***************************************************************************)
\* the keys of Overlay.emotion_icons (every icon file being present)
OverlayIcons == {"Happy", "Sad", "Angry", "Surprised", "Neutral", "Fear"}

\* the keys of emotion_guidance in generate_npc_dialogue
EmotionGuidanceKeys == {"happy", "sad", "angry", "surprised", "fearful", "neutral"}

\* emotion_guidance.get(emotion, emotion_guidance["neutral"]), as the key of
\* the hint that goes into the prompt
EmotionHint(emotion) ==
    IF emotion \in EmotionGuidanceKeys THEN emotion ELSE "neutral"
(***************************************************************************)
(* EmotionDetector.run: loading, camera acquisition, release               *)
(* print and time.sleep are taken to return normally.                      *)
(***************************************************************************)
\* the emotion_model.pth the thread finds
ModelFiles == {"ok", "missing", "corrupt"}

\* the except clause of _load_model
LoadModelHandlers == {"Exception"}

\* _load_model: value is the boolean it returns
LoadModel(file) ==
    LET exc == IF file = "corrupt" THEN "RuntimeError" ELSE "none"
    IN  IF file = "missing" THEN [raised |-> "none", value |-> FALSE]
        ELSE IF exc = "none" THEN [raised |-> "none", value |-> TRUE]
        ELSE IF Caught(exc, LoadModelHandlers)
             THEN [raised |-> "none", value |-> FALSE]
        ELSE [raised |-> exc, value |-> FALSE]

\* the Haar cascade file the thread finds: present on disk (usable or not),
\* or absent and then downloaded (usable or not), refused by the server, or
\* not reachable (requests.get raises)
CascadeFiles ==
    {"present", "present_unusable", "downloaded", "downloaded_unusable",
     "download_refused", "download_raises"}

\* _load_face_detector has no try statement
LoadFaceHandlers == {}

\* _load_face_detector: value is the boolean it returns
LoadFaceDetector(file) ==
    LET exc == IF file = "download_raises" THEN "ConnectionError" ELSE "none"
    IN  IF exc # "none"
        THEN IF Caught(exc, LoadFaceHandlers)
             THEN [raised |-> "none", value |-> FALSE]
             ELSE [raised |-> exc, value |-> FALSE]
        ELSE IF file = "download_refused"
             THEN [raised |-> "none", value |-> FALSE]
        ELSE IF file \in {"present_unusable", "downloaded_unusable"}
             THEN [raised |-> "none", value |-> FALSE]
        ELSE [raised |-> "none", value |-> TRUE]

\* run(), the first statement: where the thread is after it. The face
\* detector is not loaded when the model has failed (not ... or not ...).
LoadStep(model, cascade) ==
    LET m == LoadModel(model)
        f == LoadFaceDetector(cascade)
    IN  IF m.raised # "none" THEN "crashed"
        ELSE IF ~m.value THEN "stopped"
        ELSE IF f.raised # "none" THEN "crashed"
        ELSE IF ~f.value THEN "stopped"
        ELSE "camera"

\* camera_backends of run(), in the order of the for loop
CameraBackends == <<"CAP_DSHOW", "CAP_MSMF", "default">>

\* what a backend that does not work does: cv2.VideoCapture raises, the
\* capture is not opened, the warm-up read gives no frame, the read raises
AcquireFaults == {"constructor_raises", "not_opened", "no_frame", "read_raises"}

TryBackend_KeepsRejected(backend, outcome) ==
    CASE outcome = "constructor_raises" -> [cap |-> "None", open |-> {}]
      [] outcome = "not_opened"         -> [cap |-> "None", open |-> {}]
      [] outcome = "no_frame"           -> [cap |-> "None", open |-> {backend}]
      [] outcome = "read_raises"        -> [cap |-> "None", open |-> {}]
      [] OTHER                          -> [cap |-> backend, open |-> {backend}]

\* one iteration of the for loop over camera_backends, entered with cap None:
\* the cap it leaves and the devices it leaves open. Every branch that does
\* not break releases the capture it has and sets cap to None.
TryBackend(backend, outcome) ==
    CASE outcome = "constructor_raises" -> [cap |-> "None", open |-> {}]
      [] outcome = "not_opened"         -> [cap |-> "None", open |-> {}]
      [] outcome = "no_frame"           ->
             [cap |-> "None", open |-> {backend} \ {backend}]
      [] outcome = "read_raises"        ->
             [cap |-> "None", open |-> {backend} \ {backend}]
      [] OTHER                          -> [cap |-> backend, open |-> {backend}]

Finally_NoRelease(c, handles) == handles

\* the finally clause of run(): if cap: cap.release()
Finally(c, handles) ==
    IF c # "None" THEN handles \ {c} ELSE handles


(***************************************************************************)
(* EmotionDetector.run: the frame loop. Times are in milliseconds; a time  *)
(* since an event is kept up to Interval, which stands for "Interval or    *)
(* more, or never".                                                        *)
(***************************************************************************)
\* the interval between two inferences (0.5 s)
Interval == 500

\* time.sleep(0.033) at the end of an iteration
FrameSleep == 33

\* time.sleep(0.1) after a failed read
RetrySleep == 100

Capped(t) == IF t >= Interval THEN Interval ELSE t

\* frame_count = 0; last_emotion_time = time.time(): nothing appended yet
StartTimer == [attempt |-> 0, frame |-> Interval, push |-> Interval]

InferenceDue_EveryFrame(elapsed) == TRUE

\* current_time - last_emotion_time >= 0.5
InferenceDue(elapsed) == elapsed >= Interval

\* the number of faces detectMultiScale finds in a frame
FaceCounts == 0..2

\* an iteration whose read gives no frame: read, print, sleep, continue
FailedRead(t, read) ==
    [attempt |-> Capped(t.attempt + read + RetrySleep),
     frame   |-> Capped(t.frame + read + RetrySleep),
     push    |-> Capped(t.push + read + RetrySleep)]

\* an iteration whose read gives a frame. read is the time cap.read() took
\* (current_time is taken after it), work the time of face detection and
\* classification (the append comes after it). A face found in the frame
\* has a region of size > 0.
FrameIteration(t, read, work, faces) ==
    LET elapsed == Capped(t.attempt + read)
        due     == InferenceDue(elapsed)
        pushed  == due /\ faces > 0
    IN  [kind |-> "frame", elapsed |-> elapsed, faces |-> faces,
         pushed |-> pushed,
         frame_gap |-> Capped(t.frame + read),
         push_gap |-> Capped(t.push + read + work),
         timer |->
            [attempt |-> IF due THEN Capped(work + FrameSleep)
                         ELSE Capped(elapsed + work + FrameSleep),
             frame   |-> IF pushed THEN Capped(work + FrameSleep)
                         ELSE Capped(t.frame + read + work + FrameSleep),
             push    |-> IF pushed THEN FrameSleep
                         ELSE Capped(t.push + read + work + FrameSleep)]]
(***************************************************************************)
(* DialogueSystem: wrapping and pagination                                 *)
(***************************************************************************)
\* width of the dialogue box (text_box_rect.width)
TextBoxWidth == 1200

\* lines_per_page of _wrap_text
LinesPerPage == 4

\* glyphs the dialogue font draws narrow
NarrowGlyphs == {" ", "i", "l", "I", "!", "'", ".", ",", "\t", "\n"}

\* self.font.size(line)[0]: the rendered width of a line in pixels, the sum
\* of the advances of its glyphs
FontSize(line) ==
    12 * Len(line) - 6 * Cardinality({i \in 1..Len(line) : line[i] \in NarrowGlyphs})

\* text.split(" "): the pieces between single spaces, empty pieces included.
\* The text is cut at one of its spaces, the one nearest its middle, and the
\* pieces of both halves are put together: the recursion is then no deeper
\* than the logarithm of the number of words.
RECURSIVE Split(_)
Split(text) ==
    LET n      == Len(text)
        spaces == {i \in 1..n : text[i] = " "}
        after  == {i \in spaces : 2 * i >= n}
        p      == IF after # {}
                  THEN CHOOSE i \in after : \A j \in after : i <= j
                  ELSE CHOOSE i \in spaces : \A j \in spaces : j <= i
    IN  IF spaces = {} THEN <<text>>
        ELSE Split(SubSeq(text, 1, p - 1)) \o Split(SubSeq(text, p + 1, n))

\* the body of the for loop of _wrap_text: one word added to the state
\* (current_line, lines)
WrapWord(state, word, max_width) ==
    LET test_line == state.current_line \o word \o <<" ">>
    IN  IF FontSize(test_line) < max_width
        THEN [state EXCEPT !.current_line = test_line]
        ELSE [current_line |-> word \o <<" ">>,
              lines |-> IF Strip(state.current_line) # <<>>
                        THEN Append(state.lines, Strip(state.current_line))
                        ELSE state.lines]

\* the for loop of _wrap_text over words[lo..hi], in order, from state: the
\* first half of the words, then the second half from the state the first
\* half left. The state is looked at (it always has its two fields) before
\* the words are, so that it is computed before the recursion goes deeper.
RECURSIVE WrapLoop(_, _, _, _, _)
WrapLoop(words, lo, hi, state, max_width) ==
    IF DOMAIN state = {} \/ lo > hi THEN state
    ELSE IF lo = hi THEN WrapWord(state, words[lo], max_width)
    ELSE WrapLoop(words, (lo + hi) \div 2 + 1, hi,
                  WrapLoop(words, lo, (lo + hi) \div 2, state, max_width),
                  max_width)

WrapWords_NoFlush(words, max_width) ==
    WrapLoop(words, 1, Len(words),
             [current_line |-> <<>>, lines |-> <<>>], max_width).lines

\* the lines of _wrap_text: the for loop over all words and the flush of the
\* last line after it
WrapWords(words, max_width) ==
    LET end == WrapLoop(words, 1, Len(words),
                        [current_line |-> <<>>, lines |-> <<>>], max_width)
    IN  IF Strip(end.current_line) # <<>>
        THEN Append(end.lines, Strip(end.current_line))
        ELSE end.lines

GroupPages_FiveLines(lines) ==
    [p \in 1..((Len(lines) + 4) \div 5) |->
        SubSeq(lines, (p - 1) * 5 + 1,
               IF p * 5 < Len(lines) THEN p * 5 ELSE Len(lines))]

\* lines[i : i + lines_per_page] for i = 0, lines_per_page, ...
GroupPages(lines) ==
    [p \in 1..((Len(lines) + LinesPerPage - 1) \div LinesPerPage) |->
        SubSeq(lines, (p - 1) * LinesPerPage + 1,
               IF p * LinesPerPage < Len(lines) THEN p * LinesPerPage
               ELSE Len(lines))]

WrapText_NoPlaceholder(text, max_width) ==
    GroupPages(WrapWords(Split(text), max_width))

\* _wrap_text: never returns an empty page list
WrapText(text, max_width) ==
    LET pages == GroupPages(WrapWords(Split(text), max_width))
    IN  IF pages # <<>> THEN pages ELSE <<<<NO_DIALOGUE>>>>

\* _get_static_fallback
GetStaticFallback(character_id) ==
    IF character_id = "trader" THEN STATIC_TRADER ELSE STATIC_DEFAULT

(***************************************************************************)
(* Values before anything has happened                                     *)
(***************************************************************************)
NoManager == [built |-> FALSE, client |-> FALSE, fallback_mode |-> TRUE]
NoInit    == [kind |-> "none"]
NoCall    == [kind |-> "none"]
NoContext == [kind |-> "none"]
NotCalled == [kind |-> "not_called", content |-> <<>>]

\* DialogueSystem fields before __init__ has decided ai_enabled
NoSession ==
    [active |-> FALSE, current_dialogue |-> <<>>, dialogue_index |-> 0,
     on_finish_callback |-> "None", ai_enabled |-> FALSE]

NoStart == [kind |-> "none"]
NoWrap  == [kind |-> "none"]
NoIteration == [kind |-> "none"]

(***************************************************************************)
(* DialogueSystem: the session                                             *)
(* The operations work on a record w of the fields they read and write:    *)
(* w.ds (the DialogueSystem), w.shop_active (Level, written by the trader  *)
(* callback), w.finish_count, w.started, and w.raised, the exception that  *)
(* escapes to the caller ("none" when the call returns).                   *)
(***************************************************************************)
\* player_context.get(key, default)
CtxGet(ctx, key, default) ==
    IF key \in DOMAIN ctx THEN ctx[key] ELSE default

\* DialogueSystem.__init__: the session fields and the manager it builds
DialogueSystemInit(enable_ai_dialogue, ai_available, openai_available, file, construct_exc) ==
    LET wanted == enable_ai_dialogue /\ ai_available
        r      == ManagerInit(openai_available, file, construct_exc)
        built  == wanted /\ r.raised = "none"
    IN  [ds |-> [NoSession EXCEPT !.ai_enabled = built],
         manager |-> IF built
                     THEN [built |-> TRUE, client |-> r.client,
                           fallback_mode |-> r.fallback_mode]
                     ELSE NoManager,
         init |-> IF wanted
                  THEN [kind |-> "init", openai_available |-> openai_available,
                        file |-> file, construct_exc |-> construct_exc,
                        raised |-> r.raised]
                  ELSE NoInit]

RECURSIVE EndDialogue(_)
RECURSIVE StartDialogue(_, _, _, _, _, _)

\* the remote request of a start_dialogue call made by a callback times out
CallbackRemote == [kind |-> "timeout", content |-> <<>>]

\* self.on_finish_callback(): Level.open_trader_menu opens the shop; a
\* callback of a caller may call back into the session, end_dialogue() or
\* start_dialogue("cow", {}, on_finish=second); any other callback leaves
\* the modelled state alone
InvokeCallback(cb, w) ==
    LET w1 == [w EXCEPT !.finish_count = @ + 1]
    IN  CASE cb = "open_trader_menu" -> [w1 EXCEPT !.shop_active = TRUE]
          [] cb = "end_dialogue" ->
                 IF w.depth >= RecursionLimit
                 THEN [w1 EXCEPT !.raised = "RecursionError"]
                 ELSE [EndDialogue([w1 EXCEPT !.depth = @ + 1])
                          EXCEPT !.depth = w.depth]
          [] cb = "start_dialogue" ->
                 StartDialogue(w1, w1.manager, "cow", << >>, "second",
                               CallbackRemote)
          [] OTHER -> w1

EndDialogue_KeepsCallback(w) ==
    LET cb == w.ds.on_finish_callback
        w1 == [w EXCEPT !.ds.active = FALSE,
                        !.ds.current_dialogue = <<>>,
                        !.ds.dialogue_index = 0]
    IN  IF cb # "None" THEN InvokeCallback(cb, w1) ELSE w1

EndDialogue_KeepsPages(w) ==
    LET cb == w.ds.on_finish_callback
        w1 == [w EXCEPT !.ds.active = FALSE,
                        !.ds.dialogue_index = 0]
    IN  IF cb # "None"
        THEN [InvokeCallback(cb, w1) EXCEPT !.ds.on_finish_callback = "None"]
        ELSE w1

\* end_dialogue: the callback is cleared after it has returned
EndDialogue(w) ==
    LET cb == w.ds.on_finish_callback
        w1 == [w EXCEPT !.ds.active = FALSE,
                        !.ds.current_dialogue = <<>>,
                        !.ds.dialogue_index = 0]
        r  == InvokeCallback(cb, w1)
    IN  IF cb = "None" THEN w1
        ELSE IF r.raised # "none" THEN r
        ELSE [r EXCEPT !.ds.on_finish_callback = "None"]

NextLine_EndsOnLastPage(w) ==
    LET w1 == [w EXCEPT !.ds.dialogue_index = @ + 1]
    IN  IF w1.ds.dialogue_index >= Len(w1.ds.current_dialogue) - 1
        THEN EndDialogue(w1)
        ELSE w1

\* next_line
NextLine(w) ==
    LET w1 == [w EXCEPT !.ds.dialogue_index = @ + 1]
    IN  IF w1.ds.dialogue_index >= Len(w1.ds.current_dialogue)
        THEN EndDialogue(w1)
        ELSE w1

\* start_dialogue; remote is what the remote request does if one is made
StartDialogue(w, manager, character_id, player_context, on_finish, remote) ==
    LET w1     == [w EXCEPT !.ds.active = TRUE,
                            !.ds.dialogue_index = 0,
                            !.ds.on_finish_callback = on_finish,
                            !.finish_count = 0]
        use_ai == w.ds.ai_enabled /\ manager.built
        r      == GenerateNpcDialogue(
                      manager,
                      CtxGet(player_context, "npc_name", DEFAULT_NPC_NAME),
                      CtxGet(player_context, "npc_role", "character"),
                      CtxGet(player_context, "situation", DEFAULT_SITUATION),
                      CtxGet(player_context, "emotion", "neutral"),
                      remote)
        text   == IF use_ai THEN r.text ELSE GetStaticFallback(character_id)
        w2     == [w1 EXCEPT !.ds.current_dialogue =
                                 WrapText(text, TextBoxWidth - 40),
                             !.started = [kind |-> "start", text |-> text,
                                          on_finish |-> on_finish]]
    IN  IF use_ai /\ r.raised # "none" THEN [w1 EXCEPT !.raised = r.raised]
        ELSE IF w2.ds.current_dialogue = <<>> THEN EndDialogue(w2)
        ELSE w2

(***************************************************************************)
(* The emotion history buffer: collections.deque(maxlen=5)                 *)
(***************************************************************************)
\* maxlen of Game.emotions_deque
DequeMaxLen == 5

DequeAppend_KeepsOldest(d, x) ==
    IF Len(d) >= DequeMaxLen THEN d ELSE Append(d, x)

\* deque.append(x) on a deque with maxlen: the oldest entry is discarded
\* from the left when the deque is full
DequeAppend(d, x) ==
    IF Len(d) >= DequeMaxLen THEN Append(Tail(d), x) ELSE Append(d, x)

(***************************************************************************)
(* State                                                                   *)
(***************************************************************************)
VARIABLES
    emotions_deque,     \* Game.emotions_deque, shared with Level, Overlay and
                        \* every EmotionDetector
    test_pushed,        \* the labels the buffer test has appended, in order
    emotion_detector,   \* Game.emotion_detector: 0 is None, else a thread id
    loop_pc,            \* per EmotionDetector thread: position in run()
    stopper,            \* per EmotionDetector thread: _stopper is set
    env,                \* what the machine does in this run: the camera
                        \* backends that work, the labels the classifier gives
    tries,              \* per EmotionDetector thread: backends tried by run()
    cap,                \* per EmotionDetector thread: the local cap of run(),
                        \* "None" or the backend of the VideoCapture it holds
    open_handles,       \* per EmotionDetector thread: the backends of the
                        \* capture devices it has opened and not released
    fg,                 \* position of the foreground thread (Game.run)
    shop_active,        \* Level.shop_active
    request_context,    \* the player_context Level.toggle_shop built last
    processed,          \* what the latest frame of Level.run updated
    ds,                 \* DialogueSystem: active, current_dialogue,
                        \* dialogue_index, on_finish_callback, ai_enabled
    finish_count,       \* invocations of the on_finish callback since the
                        \* latest start_dialogue call began
    started,            \* the latest start_dialogue call: the text it obtained
                        \* and the callback it was given
    last_op,            \* the latest operation performed on the DialogueSystem
    was_active,         \* ds.active when that operation was called
    ai_manager,         \* AIDialogueManager: built, client, fallback_mode
    init_result,        \* inputs and outcome of AIDialogueManager.__init__
    last_call,          \* inputs and outcome of the latest generate_npc_dialogue
                        \* call a caller made directly on the client
    prev_offline,       \* an earlier generate_npc_dialogue call, kept for comparison
    wrap_call,          \* inputs and outcome of the latest _wrap_text call a
                        \* caller made directly
    timer,              \* per EmotionDetector thread, in ms and up to
                        \* Interval: the time since last_emotion_time, since
                        \* the frame of its latest append, since that append
    iteration           \* per EmotionDetector thread: what the latest
                        \* iteration of its frame loop did

vars ==
    <<emotions_deque, test_pushed, emotion_detector, loop_pc, stopper, fg,
      shop_active, request_context, ds, finish_count, started, last_op,
      was_active, ai_manager, init_result, last_call, prev_offline,
      env, tries, cap, open_handles, wrap_call, timer, iteration, processed>>

bufferVars == <<emotions_deque, test_pushed>>
detectorVars == <<emotion_detector, loop_pc, stopper>>
levelVars == <<shop_active, request_context, processed>>
sessionVars == <<ds, finish_count, started, was_active>>
deviceVars == <<env, tries, cap, open_handles>>
timingVars == <<timer, iteration>>
clientVars == <<ai_manager, init_result, last_call, prev_offline>>

(***************************************************************************)
(* Initial values of the parts of the state                                *)
(***************************************************************************)
InitBuffer ==
    emotions_deque = <<>> /\ test_pushed = <<>>

\* no EmotionDetector.run has tried a camera backend or holds a device
InitHandles ==
    /\ tries = [i \in 1..MaxDetectors |-> 0]
    /\ cap = [i \in 1..MaxDetectors |-> "None"]
    /\ open_handles = [i \in 1..MaxDetectors |-> {}]
    /\ timer = [i \in 1..MaxDetectors |-> StartTimer]
    /\ iteration = [i \in 1..MaxDetectors |-> NoIteration]

InitDetector ==
    /\ emotion_detector = 0
    /\ loop_pc = [i \in 1..MaxDetectors |-> "unborn"]
    /\ stopper = [i \in 1..MaxDetectors |-> FALSE]
    /\ env = [working |-> {}, labels |-> {}]
    /\ InitHandles

InitLevel ==
    shop_active = FALSE /\ request_context = NoContext /\ processed = {}

InitWrap ==
    wrap_call = NoWrap

InitSession ==
    ds = NoSession /\ finish_count = 0 /\ started = NoStart /\ was_active = FALSE

InitManager ==
    /\ ai_manager = NoManager
    /\ init_result = NoInit
    /\ last_call = NoCall
    /\ prev_offline = NoCall

(***************************************************************************)
(* Inputs of the dialogue client                                           *)
(***************************************************************************)
CredentialKeys == {"OPENAI_API_KEY", "base_url"}

\* field values found in a credentials object: empty or not
CredentialValues == {<<>>, <<"k">>}

NoData == [k \in {} |-> <<>>]

\* the credentials file: absent, unreadable, not JSON, JSON that is not an
\* object, or an object with any subset of the two fields
CredentialFiles ==
    {[kind |-> k, data |-> NoData] :
        k \in {"absent", "unreadable", "invalid_json", "not_object"}}
    \cup {[kind |-> "object", data |-> d] :
            d \in UNION {[ks -> CredentialValues] : ks \in SUBSET CredentialKeys}}

ConstructOutcomes == {"none", "OpenAIError"}

CharacterNames == {KW_MERCHANT_PETE, DEFAULT_NPC_NAME, TXT_OLD_PETE}

CharacterRoles == {"friendly trader", "character"}

Situations ==
    {SITUATION_RICH, SITUATION_POOR, SITUATION_STEADY, SCENARIO_SITUATION,
     TXT_RICH_AND_NEW}

\* the six labels of the vocabulary and one label outside of it
CallEmotions ==
    {"happy", "sad", "angry", "surprised", "fearful", "neutral", "excited"}

\* the inputs of the caller that compares answers
ComparedSituations == {SITUATION_POOR, SITUATION_STEADY, TXT_RICH_AND_NEW}

ComparedEmotions == {"happy", "sad", "neutral", "excited"}

\* what the remote request can do: answer with some content, or fail
RemoteOutcomes ==
    {[kind |-> "ok", content |-> c] :
        c \in {TXT_REPLY, <<>>, TXT_BLANKS}}
    \cup {[kind |-> k, content |-> <<>>] :
            k \in {"transport_error", "timeout", "no_choices", "null_content"}}

(***************************************************************************)
(* Operations of the dialogue client                                       *)
(***************************************************************************)
\* AIDialogueManager(key_file_path)
ManagerConstruct ==
    /\ ~ai_manager.built
    /\ init_result = NoInit
    /\ \E openai_available \in BOOLEAN, file \in CredentialFiles,
          construct_exc \in ConstructOutcomes :
          LET r == ManagerInit(openai_available, file, construct_exc)
          IN  /\ ai_manager' = [built |-> r.raised = "none",
                                client |-> r.client,
                                fallback_mode |-> r.fallback_mode]
              /\ init_result' = [kind |-> "init",
                                 openai_available |-> openai_available,
                                 file |-> file,
                                 construct_exc |-> construct_exc,
                                 raised |-> r.raised]
    /\ UNCHANGED last_op
    /\ UNCHANGED <<last_call, prev_offline>>
    /\ UNCHANGED <<bufferVars, detectorVars, fg, levelVars, sessionVars>>
    /\ UNCHANGED <<deviceVars, wrap_call, timingVars>>

\* the record of one generate_npc_dialogue call
CallRecord(manager, name, role, situation, emotion, remote) ==
    LET r == GenerateNpcDialogue(manager, name, role, situation, emotion, remote)
    IN  [kind |-> "call",
         offline |-> manager.fallback_mode \/ ~manager.client,
         character_name |-> name, character_role |-> role,
         player_context |-> situation, emotion |-> emotion,
         remote |-> remote, raised |-> r.raised, text |-> r.text]

\* the remote outcomes a call can meet: none when no request is made
RemoteFor(manager) ==
    IF manager.fallback_mode \/ ~manager.client THEN {NotCalled}
    ELSE RemoteOutcomes

GenerateCall_FallsOffline(name, role, situation, emotion, remote) ==
    /\ ai_manager.built
    /\ last_call' = CallRecord(ai_manager, name, role, situation, emotion, remote)
    /\ ai_manager' = IF RemoteException(remote) # "none"
                     THEN [ai_manager EXCEPT !.fallback_mode = TRUE]
                     ELSE ai_manager
    /\ UNCHANGED init_result

\* ai_manager.generate_npc_dialogue(name, role, situation, emotion)
GenerateCall(name, role, situation, emotion, remote) ==
    /\ ai_manager.built
    /\ last_call' = CallRecord(ai_manager, name, role, situation, emotion, remote)
    /\ UNCHANGED <<ai_manager, init_result>>

\* a caller of the client, making any call in the trader's role
Generate ==
    /\ \E name \in CharacterNames, situation \in Situations,
          emotion \in CallEmotions :
          \E remote \in RemoteFor(ai_manager) :
             GenerateCall(name, "friendly trader", situation, emotion, remote)
    /\ UNCHANGED last_op
    /\ UNCHANGED prev_offline
    /\ UNCHANGED <<bufferVars, detectorVars, fg, levelVars, sessionVars>>
    /\ UNCHANGED <<deviceVars, wrap_call, timingVars>>

\* a caller that keeps an earlier call to compare the latest one with
GenerateAndCompare ==
    /\ \E name \in CharacterNames, role \in CharacterRoles,
          situation \in ComparedSituations, emotion \in ComparedEmotions :
          \E remote \in RemoteFor(ai_manager) :
             GenerateCall(name, role, situation, emotion, remote)
    /\ prev_offline' \in {prev_offline, last_call}
    /\ UNCHANGED last_op
    /\ UNCHANGED <<bufferVars, detectorVars, fg, levelVars, sessionVars>>
    /\ UNCHANGED <<deviceVars, wrap_call, timingVars>>

(***************************************************************************)
(* The dialogue client on its own: construction, then any calls            *)
(***************************************************************************)
InitClient ==
    /\ InitBuffer /\ InitDetector /\ InitLevel /\ InitSession /\ InitWrap /\ InitManager
    /\ fg = "client"
    /\ last_op = "init"

NextClient == ManagerConstruct \/ Generate

SpecClient == InitClient /\ [][NextClient]_vars

(***************************************************************************)
(* The offline client: constructed without a credentials file, then called *)
(* repeatedly by a caller that compares the answers                        *)
(***************************************************************************)
AbsentFile == [kind |-> "absent", data |-> NoData]

InitOffline ==
    /\ InitBuffer /\ InitDetector /\ InitLevel /\ InitSession /\ InitWrap
    /\ fg = "client"
    /\ last_op = "init"
    /\ LET r == ManagerInit(TRUE, AbsentFile, "none")
       IN  /\ ai_manager = [built |-> r.raised = "none", client |-> r.client,
                            fallback_mode |-> r.fallback_mode]
           /\ init_result = [kind |-> "init", openai_available |-> TRUE,
                             file |-> AbsentFile, construct_exc |-> "none",
                             raised |-> r.raised]
    /\ last_call = NoCall
    /\ prev_offline = NoCall

NextOffline == GenerateAndCompare

SpecOffline == InitOffline /\ [][NextOffline]_vars

(***************************************************************************)
(* The buffer on its own: a test harness appends labels to a fresh deque   *)
(* and records what it appended                                            *)
(***************************************************************************)
\* the vocabulary of emotion labels
EmotionLabels == {"happy", "sad", "angry", "surprised", "fearful", "neutral"}

InitDeque ==
    /\ InitBuffer /\ InitDetector /\ InitLevel /\ InitSession /\ InitWrap /\ InitManager
    /\ fg = "buffer test"
    /\ last_op = "init"

\* emotions_deque.append(emotion)
BufferAppend ==
    /\ Len(test_pushed) < MaxPushes
    /\ \E emotion \in EmotionLabels :
          /\ emotions_deque' = DequeAppend(emotions_deque, emotion)
          /\ test_pushed' = Append(test_pushed, emotion)
    /\ UNCHANGED last_op
    /\ UNCHANGED <<detectorVars, fg, levelVars, sessionVars, clientVars>>
    /\ UNCHANGED <<deviceVars, wrap_call, timingVars>>

NextDeque == BufferAppend

SpecDeque == InitDeque /\ [][NextDeque]_vars

(***************************************************************************)
(* The DialogueSystem on its own: constructed with or without a manager,   *)
(* then driven by any caller                                               *)
(***************************************************************************)
\* the fields the session operations read and write, as a record
World ==
    [ds |-> ds, shop_active |-> shop_active, finish_count |-> finish_count,
     started |-> started, raised |-> "none", manager |-> ai_manager,
     depth |-> 0]

\* the state after a session operation that returned w
SetWorld(w) ==
    /\ ds' = w.ds
    /\ shop_active' = w.shop_active
    /\ finish_count' = w.finish_count
    /\ started' = w.started
    /\ was_active' = ds.active
    /\ fg' = IF w.raised # "none" THEN "crashed" ELSE fg

CompleteFile ==
    [kind |-> "object",
     data |-> [k \in CredentialKeys |-> <<"k">>]]

\* the on_finish arguments callers pass
Callbacks == {"None", "open_trader_menu", "on_finish"}

CharacterIds == {"trader", "cow"}

\* the player_context dictionaries callers pass: complete, or with only a name
SessionContexts ==
    {[npc_name |-> KW_MERCHANT_PETE, npc_role |-> "friendly trader",
      situation |-> SITUATION_POOR, emotion |-> e] : e \in {"happy", "neutral"}}
    \cup {[npc_name |-> DEFAULT_NPC_NAME]}

\* what the remote request of a session can do: as for any call, or answer
\* with a reply that fills several pages of the dialogue box
SessionRemotes ==
    IF ~ds.ai_enabled \/ RemoteFor(ai_manager) = {NotCalled} THEN {NotCalled}
    ELSE RemoteOutcomes
         \cup {[kind |-> "ok", content |-> c] :
                  c \in {TXT_TWO_PAGE_REPLY, TXT_THREE_PAGE_REPLY}}

InitSessionSpec ==
    /\ InitBuffer /\ InitDetector /\ InitLevel /\ InitWrap
    /\ fg = "session"
    /\ last_op = "init"
    /\ finish_count = 0
    /\ started = NoStart
    /\ was_active = FALSE
    /\ last_call = NoCall
    /\ prev_offline = NoCall
    /\ \E enable_ai_dialogue \in BOOLEAN, file \in {AbsentFile, CompleteFile} :
          LET c == DialogueSystemInit(enable_ai_dialogue, TRUE, TRUE, file, "none")
          IN  /\ ds = c.ds
              /\ ai_manager = c.manager
              /\ init_result = c.init

\* dialogue_system.start_dialogue(character_id, player_context, on_finish)
SessionStart ==
    /\ fg = "session"
    /\ \E character_id \in CharacterIds, player_context \in SessionContexts,
          on_finish \in Callbacks :
          \E remote \in SessionRemotes :
             \E w \in {StartDialogue(World, ai_manager, character_id,
                                      player_context, on_finish, remote)} :
                SetWorld(w)
    /\ last_op' = "start_dialogue"
    /\ UNCHANGED <<bufferVars, detectorVars, request_context, processed,
                   clientVars>>
    /\ UNCHANGED <<deviceVars, wrap_call, timingVars>>

\* dialogue_system.next_line()
SessionNextLine ==
    /\ fg = "session"
    /\ \E w \in {NextLine(World)} : SetWorld(w)
    /\ last_op' = "next_line"
    /\ UNCHANGED <<bufferVars, detectorVars, request_context, processed,
                   clientVars>>
    /\ UNCHANGED <<deviceVars, wrap_call, timingVars>>

\* dialogue_system.end_dialogue()
SessionEnd ==
    /\ fg = "session"
    /\ \E w \in {EndDialogue(World)} : SetWorld(w)
    /\ last_op' = "end_dialogue"
    /\ UNCHANGED <<bufferVars, detectorVars, request_context, processed,
                   clientVars>>
    /\ UNCHANGED <<deviceVars, wrap_call, timingVars>>

NextSession == SessionStart \/ SessionNextLine \/ SessionEnd

SpecSession == InitSessionSpec /\ [][NextSession]_vars


(***************************************************************************)
(* The DialogueSystem driven by a caller whose callbacks call back into it *)
(***************************************************************************)
\* on_finish arguments that call end_dialogue() and
\* start_dialogue("cow", {}, on_finish=second) on the session that ends
ReentrantCallbacks == {"end_dialogue", "start_dialogue"}

\* start_dialogue with such a callback, or with one that returns at once
SessionStartReentrant ==
    /\ fg = "session"
    /\ \E character_id \in CharacterIds, player_context \in SessionContexts,
          on_finish \in ReentrantCallbacks \cup {"on_finish", "second"} :
          \E remote \in RemoteFor(ai_manager) :
             \E w \in {StartDialogue(World, ai_manager, character_id,
                                      player_context, on_finish, remote)} :
                SetWorld(w)
    /\ last_op' = "start_dialogue"
    /\ UNCHANGED <<bufferVars, detectorVars, request_context, processed,
                   clientVars>>
    /\ UNCHANGED <<deviceVars, wrap_call, timingVars>>

NextReentrant ==
    \/ SessionStartReentrant
    \/ SessionNextLine
    \/ SessionEnd

SpecReentrant == InitSessionSpec /\ [][NextReentrant]_vars
(***************************************************************************)
(* The game: Game, its EmotionDetector threads, Level and its dialogue     *)
(***************************************************************************)
Detectors == 1..MaxDetectors

\* Thread.is_alive(): started and not yet returned from run()
IsAlive(i) ==
    loop_pc[i] \in {"init", "camera", "top", "backoff", "body"}

\* the labels the classifier returns in the modelled runs
SensedLabels == {"sad", "happy"}

\* a machine on which every camera backend works, the enable_camera
\* setting being true when the game starts
WorkingEnv ==
    [working |-> {CameraBackends[k] : k \in 1..Len(CameraBackends)},
     labels |-> SensedLabels,
     read_ms |-> {Interval}, work_ms |-> {0}, faces |-> {0, 1},
     enable_camera |-> TRUE]

\* test_emotions of Level.toggle_shop
TestEmotions == {"happy", "surprised", "neutral", "excited"}

\* what the remote request does in the modelled runs of the game: a reply,
\* an empty reply, a timeout (or no request at all)
GameRemotes ==
    {[kind |-> "ok", content |-> TXT_REPLY], [kind |-> "ok", content |-> <<>>],
     [kind |-> "timeout", content |-> <<>>], NotCalled}

\* amounts of player.money, one for each situation text
MoneyAmounts == {50, 500, 5000}

\* Game.__init__: the buffer is empty, a detector is created (not started)
\* when the enable_camera setting is true, the menu is shown
InitLifecycle ==
    /\ InitBuffer /\ InitLevel /\ InitSession /\ InitManager /\ InitWrap
    /\ InitHandles
    /\ fg = "boot"
    /\ last_op = "init"
    /\ stopper = [i \in Detectors |-> FALSE]
    /\ \E enable_camera \in BOOLEAN :
          /\ env = [WorkingEnv EXCEPT !.enable_camera = enable_camera]
          /\ emotion_detector = IF enable_camera THEN 1 ELSE 0
          /\ loop_pc = [i \in Detectors |->
                           IF i = 1 /\ enable_camera THEN "new" ELSE "unborn"]

\* Game.run up to the main loop: start the detector thread if there is one
GameRunStart ==
    /\ fg = "boot"
    /\ fg' = "menu"
    /\ loop_pc' = IF emotion_detector # 0 /\ ~IsAlive(emotion_detector)
                  THEN [loop_pc EXCEPT ![emotion_detector] = "init"]
                  ELSE loop_pc
    /\ UNCHANGED last_op
    /\ UNCHANGED <<bufferVars, emotion_detector, stopper, levelVars,
                   sessionVars, clientVars>>
    /\ UNCHANGED <<deviceVars, wrap_call, timingVars>>

\* Game.restart_emotion_detector, first half: a live detector is told to stop
\* and the caller waits in join(timeout=2.0). (A run creates at most
\* MaxDetectors threads.)
RestartBegin ==
    /\ fg = "menu"
    /\ emotion_detector # 0 /\ IsAlive(emotion_detector)
    /\ \E new \in Detectors : loop_pc[new] = "unborn"
    /\ stopper' = [stopper EXCEPT ![emotion_detector] = TRUE]
    /\ fg' = "joining"
    /\ UNCHANGED last_op
    /\ UNCHANGED <<bufferVars, emotion_detector, loop_pc, levelVars,
                   sessionVars, clientVars>>
    /\ UNCHANGED <<deviceVars, wrap_call, timingVars>>

RestartCreate_WaitsForStopped ==
    /\ \/ fg = "joining" /\ ~IsAlive(emotion_detector)
       \/ fg = "menu" /\ ~(emotion_detector # 0 /\ IsAlive(emotion_detector))
    /\ \E new \in Detectors :
          /\ loop_pc[new] = "unborn"
          /\ \A i \in Detectors : loop_pc[i] = "unborn" => new <= i
          /\ emotion_detector' = new
          /\ loop_pc' = [loop_pc EXCEPT ![new] = "init"]
    /\ fg' = "menu"
    /\ UNCHANGED last_op
    /\ UNCHANGED <<bufferVars, stopper, levelVars, sessionVars, clientVars>>
    /\ UNCHANGED <<deviceVars, wrap_call, timingVars>>

\* Game.restart_emotion_detector, second half (the whole of it when no
\* detector is alive): join has returned, because the thread ended or the
\* timeout passed; a new detector is created on the same buffer and started
RestartCreate ==
    /\ \/ fg = "joining"
       \/ fg = "menu" /\ ~(emotion_detector # 0 /\ IsAlive(emotion_detector))
    /\ \E new \in Detectors :
          /\ loop_pc[new] = "unborn"
          /\ \A i \in Detectors : loop_pc[i] = "unborn" => new <= i
          /\ emotion_detector' = new
          /\ loop_pc' = [loop_pc EXCEPT ![new] = "init"]
    /\ fg' = "menu"
    /\ UNCHANGED last_op
    /\ UNCHANGED <<bufferVars, stopper, levelVars, sessionVars, clientVars>>
    /\ UNCHANGED <<deviceVars, wrap_call, timingVars>>

\* Game.start_game: Level is created, and with it the DialogueSystem and,
\* when AI dialogue is enabled, its AIDialogueManager
StartGame ==
    /\ fg = "menu"
    /\ fg' = "game"
    /\ \E enable_ai_dialogue \in BOOLEAN, file \in {AbsentFile, CompleteFile} :
          LET c == DialogueSystemInit(enable_ai_dialogue, TRUE, TRUE, file, "none")
          IN  /\ ds' = c.ds
              /\ ai_manager' = c.manager
              /\ init_result' = c.init
    /\ UNCHANGED last_op
    /\ UNCHANGED <<bufferVars, detectorVars, levelVars, finish_count, started,
                   was_active, last_call, prev_offline>>
    /\ UNCHANGED <<deviceVars, wrap_call, timingVars>>

\* the situation text Level.toggle_shop derives from player.money
SituationFor(money) ==
    IF money > 1000 THEN SITUATION_RICH
    ELSE IF money < 100 THEN SITUATION_POOR
    ELSE SITUATION_STEADY

LevelRunUpdates_SpritesAlways(active, shop) ==
    IF active THEN {"dialogue", "sprites", "plant_collision", "plants"}
    ELSE IF shop THEN {"menu"}
    ELSE {"sprites", "plant_collision", "plants"}

LevelRunUpdates_ShopAndSprites(active, shop) ==
    IF active THEN {"dialogue"}
    ELSE IF shop THEN {"menu", "sprites", "plant_collision", "plants"}
    ELSE {"sprites", "plant_collision", "plants"}

\* Level.run, GAME LOGIC UPDATES: what a frame updates, after its events
\* have been looked at for ESC
LevelRunUpdates(active, shop) ==
    IF active THEN {"dialogue"}
    ELSE IF shop THEN {"menu"}
    ELSE {"sprites", "plant_collision", "plants"}

\* a frame of Level.run in which no key that matters is pressed
LevelFrame ==
    /\ fg = "game"
    /\ processed' = LevelRunUpdates(ds.active, shop_active)
    /\ UNCHANGED last_op
    /\ UNCHANGED <<bufferVars, detectorVars, fg, shop_active, request_context,
                   sessionVars, clientVars>>
    /\ UNCHANGED <<deviceVars, wrap_call, timingVars>>

\* Level.toggle_shop, called by Player.input (all_sprites.update) in a frame
\* in which the player interacts with the trader
ToggleShop ==
    /\ fg = "game"
    /\ "sprites" \in LevelRunUpdates(ds.active, shop_active)
    /\ processed' = LevelRunUpdates(ds.active, shop_active)
    /\ \E money \in MoneyAmounts,
          test_emotion \in (IF emotions_deque = <<>> THEN TestEmotions
                            ELSE {"unused"}) :
          LET recent_emotions == IF emotions_deque # <<>> THEN emotions_deque
                                 ELSE <<"neutral">>
              empty           == emotions_deque = <<>>
              current_emotion == IF empty THEN test_emotion
                                 ELSE recent_emotions[1]
              player_context  == [npc_name |-> KW_MERCHANT_PETE,
                                  npc_role |-> "friendly trader",
                                  situation |-> SituationFor(money),
                                  emotion |-> current_emotion,
                                  player_money |-> money]
          IN  /\ emotions_deque' = IF empty
                                   THEN DequeAppend(emotions_deque, test_emotion)
                                   ELSE emotions_deque
              /\ request_context' = player_context
              /\ \E remote \in (IF ds.ai_enabled
                                THEN RemoteFor(ai_manager) \cap GameRemotes
                                ELSE {NotCalled}) :
                    \E w \in {StartDialogue(World, ai_manager, "trader",
                                             player_context,
                                             "open_trader_menu", remote)} :
                       SetWorld(w)
    /\ last_op'  = "start_dialogue"
    /\ UNCHANGED <<test_pushed, detectorVars, clientVars>>
    /\ UNCHANGED <<deviceVars, wrap_call, timingVars>>

\* a frame of Level.run with the dialogue active and SPACE or RETURN pressed:
\* DialogueSystem.update -> input -> next_line
DialogueAdvance ==
    /\ fg = "game"
    /\ "dialogue" \in LevelRunUpdates(ds.active, shop_active)
    /\ processed' = LevelRunUpdates(ds.active, shop_active)
    /\ \E w \in {NextLine(World)} : SetWorld(w)
    /\ last_op' = "next_line"
    /\ UNCHANGED <<bufferVars, detectorVars, request_context, clientVars>>
    /\ UNCHANGED <<deviceVars, wrap_call, timingVars>>

\* a frame of Level.run with ESC pressed while the shop is open
CloseShop ==
    /\ fg = "game"
    /\ shop_active
    /\ shop_active' = FALSE
    /\ processed' = LevelRunUpdates(ds.active, FALSE)
    /\ UNCHANGED last_op
    /\ UNCHANGED <<bufferVars, detectorVars, fg, request_context, sessionVars,
                   clientVars>>
    /\ UNCHANGED <<deviceVars, wrap_call, timingVars>>

\* the QUIT event: the detector is told to stop and the process exits
Quit ==
    /\ fg \in {"menu", "game"}
    /\ stopper' = IF emotion_detector # 0
                  THEN [stopper EXCEPT ![emotion_detector] = TRUE]
                  ELSE stopper
    /\ fg' = "quit"
    /\ UNCHANGED last_op
    /\ UNCHANGED <<bufferVars, emotion_detector, loop_pc, levelVars,
                   sessionVars, clientVars>>
    /\ UNCHANGED <<deviceVars, wrap_call, timingVars>>

\* the process is running: daemon threads end with it
Running == fg \notin {"quit", "crashed"}

\* EmotionDetector.run, the first statement: the model and the face
\* detector are loaded, or one of them fails and run returns or raises
LoopInitialize(i) ==
    /\ Running
    /\ loop_pc[i] = "init"
    /\ \E model \in ModelFiles, cascade \in CascadeFiles :
          loop_pc' = [loop_pc EXCEPT ![i] = LoadStep(model, cascade)]
    /\ UNCHANGED last_op
    /\ UNCHANGED <<bufferVars, emotion_detector, stopper, fg, levelVars,
                   sessionVars, clientVars, deviceVars, wrap_call, timingVars>>

\* one iteration of the for loop over camera_backends; after the last one,
\* or on break, the check that follows the loop: run returns when it has no
\* capture, and enters the frame loop when it has one
LoopAcquire(i) ==
    /\ Running
    /\ loop_pc[i] = "camera"
    /\ LET backend == CameraBackends[tries[i] + 1]
       IN  \E outcome \in (IF backend \in env.working THEN {"ok"}
                           ELSE AcquireFaults) :
              LET r == TryBackend(backend, outcome)
              IN  /\ tries' = [tries EXCEPT ![i] = @ + 1]
                  /\ cap' = [cap EXCEPT ![i] = r.cap]
                  /\ open_handles' = [open_handles EXCEPT ![i] = @ \cup r.open]
                  /\ timer' = [timer EXCEPT ![i] = StartTimer]
                  /\ loop_pc' = [loop_pc EXCEPT ![i] =
                                    IF r.cap # "None" THEN "top"
                                    ELSE IF tries[i] + 1 = Len(CameraBackends)
                                         THEN "stopped"
                                    ELSE "camera"]
    /\ UNCHANGED last_op
    /\ UNCHANGED <<bufferVars, emotion_detector, stopper, fg, levelVars,
                   sessionVars, clientVars, env, wrap_call, iteration>>

LoopCheck_EndsAfterFailedRead(i) ==
    /\ Running
    /\ loop_pc[i] \in {"top", "backoff"}
    /\ IF stopper[i] \/ loop_pc[i] = "backoff"
       THEN /\ loop_pc' = [loop_pc EXCEPT ![i] = "stopped"]
            /\ open_handles' = [open_handles EXCEPT ![i] = Finally(cap[i], @)]
       ELSE /\ loop_pc' = [loop_pc EXCEPT ![i] = "body"]
            /\ UNCHANGED open_handles
    /\ UNCHANGED last_op
    /\ UNCHANGED <<bufferVars, emotion_detector, stopper, fg, levelVars,
                   sessionVars, clientVars, env, tries, cap, wrap_call, timingVars>>

\* while not self._stopper.is_set(), reached from the end of an iteration or
\* from the continue after a failed read; when the flag is set the loop ends
\* and the finally clause releases the capture
LoopCheck(i) ==
    /\ Running
    /\ loop_pc[i] \in {"top", "backoff"}
    /\ IF stopper[i]
       THEN /\ loop_pc' = [loop_pc EXCEPT ![i] = "stopped"]
            /\ open_handles' = [open_handles EXCEPT ![i] = Finally(cap[i], @)]
       ELSE /\ loop_pc' = [loop_pc EXCEPT ![i] = "body"]
            /\ UNCHANGED open_handles
    /\ UNCHANGED last_op
    /\ UNCHANGED <<bufferVars, emotion_detector, stopper, fg, levelVars,
                   sessionVars, clientVars, env, tries, cap, wrap_call, timingVars>>

\* one iteration of the frame loop: the read fails (the thread sleeps and
\* continues), or it gives a frame and a label is appended when an inference
\* is due and a face is found, or an exception ends the loop and the finally
\* clause releases the capture
LoopBody(i) ==
    /\ Running
    /\ loop_pc[i] = "body"
    /\ \E read \in env.read_ms :
          \/ /\ loop_pc' = [loop_pc EXCEPT ![i] = "backoff"]
             /\ timer' = [timer EXCEPT ![i] = FailedRead(@, read)]
             /\ iteration' = [iteration EXCEPT ![i] = [kind |-> "no_frame"]]
             /\ UNCHANGED <<emotions_deque, open_handles>>
          \/ /\ \E work \in env.work_ms, faces \in env.faces,
                   emotion \in env.labels :
                   LET it == FrameIteration(timer[i], read, work, faces)
                   IN  /\ emotions_deque' =
                             IF it.pushed
                             THEN DequeAppend(emotions_deque, emotion)
                             ELSE emotions_deque
                       /\ timer' = [timer EXCEPT ![i] = it.timer]
                       /\ iteration' = [iteration EXCEPT ![i] =
                             [kind |-> "frame", elapsed |-> it.elapsed,
                              faces |-> it.faces, pushed |-> it.pushed,
                              frame_gap |-> it.frame_gap,
                              push_gap |-> it.push_gap]]
             /\ loop_pc' = [loop_pc EXCEPT ![i] = "top"]
             /\ UNCHANGED open_handles
          \/ /\ loop_pc' = [loop_pc EXCEPT ![i] = "stopped"]
             /\ open_handles' = [open_handles EXCEPT ![i] = Finally(cap[i], @)]
             /\ iteration' = [iteration EXCEPT ![i] = [kind |-> "raised"]]
             /\ UNCHANGED <<emotions_deque, timer>>
    /\ UNCHANGED last_op
    /\ UNCHANGED <<test_pushed, emotion_detector, stopper, fg, levelVars,
                   sessionVars, clientVars, env, tries, cap, wrap_call>>

(***************************************************************************)
(* The life cycle of the game: boot, menu (with camera restarts), start of *)
(* the level, quit, and the sensing threads throughout                     *)
(***************************************************************************)
NextLifecycle ==
    \/ GameRunStart
    \/ RestartBegin
    \/ RestartCreate
    \/ StartGame
    \/ Quit
    \/ \E i \in Detectors : LoopInitialize(i)
    \/ \E i \in Detectors : LoopAcquire(i)
    \/ \E i \in Detectors : LoopCheck(i)
    \/ \E i \in Detectors : LoopBody(i)

SpecLifecycle == InitLifecycle /\ [][NextLifecycle]_vars

(***************************************************************************)
(* Play: the level has just been started from the menu, the first detector *)
(* thread (if the camera is enabled) has just been started; the player     *)
(* talks to the trader while the sensing thread runs                       *)
(***************************************************************************)
Init ==
    /\ InitBuffer /\ InitLevel /\ InitWrap
    /\ InitHandles
    /\ fg = "game"
    /\ last_op = "init"
    /\ finish_count = 0
    /\ started = NoStart
    /\ was_active = FALSE
    /\ last_call = NoCall
    /\ prev_offline = NoCall
    /\ stopper = [i \in Detectors |-> FALSE]
    /\ \E enable_camera \in BOOLEAN :
          /\ env = [WorkingEnv EXCEPT !.enable_camera = enable_camera]
          /\ emotion_detector = IF enable_camera THEN 1 ELSE 0
          /\ loop_pc = [i \in Detectors |->
                           IF i = 1 /\ enable_camera THEN "init" ELSE "unborn"]
    /\ \E enable_ai_dialogue \in BOOLEAN, file \in {AbsentFile, CompleteFile} :
          LET c == DialogueSystemInit(enable_ai_dialogue, TRUE, TRUE, file, "none")
          IN  /\ ds = c.ds
              /\ ai_manager = c.manager
              /\ init_result = c.init

Next ==
    \/ ToggleShop
    \/ DialogueAdvance
    \/ CloseShop
    \/ \E i \in Detectors : LoopInitialize(i)
    \/ \E i \in Detectors : LoopAcquire(i)
    \/ \E i \in Detectors : LoopCheck(i)
    \/ \E i \in Detectors : LoopBody(i)

Spec == Init /\ [][Next]_vars


(***************************************************************************)
(* The level on its own: frames of Level.run, with the buffer as some      *)
(* sensing thread has left it (or empty, the camera being disabled)        *)
(***************************************************************************)
\* the contents of the buffer in the modelled runs
Histories == {<<>>, <<"happy">>, <<"sad", "happy">>, <<"angry">>}

InitLevelSpec ==
    /\ emotions_deque \in Histories
    /\ test_pushed = <<>>
    /\ InitLevel /\ InitWrap /\ InitDetector
    /\ fg = "game"
    /\ last_op = "init"
    /\ finish_count = 0
    /\ started = NoStart
    /\ was_active = FALSE
    /\ last_call = NoCall
    /\ prev_offline = NoCall
    /\ \E enable_ai_dialogue \in BOOLEAN, file \in {AbsentFile, CompleteFile} :
          LET c == DialogueSystemInit(enable_ai_dialogue, TRUE, TRUE, file, "none")
          IN  /\ ds = c.ds
              /\ ai_manager = c.manager
              /\ init_result = c.init

NextLevel ==
    \/ LevelFrame
    \/ ToggleShop
    \/ DialogueAdvance
    \/ CloseShop

SpecLevel == InitLevelSpec /\ [][NextLevel]_vars

(***************************************************************************)
(* The sensing threads on their own: the game is at the menu with the      *)
(* first detector thread just started; the camera may be reconfigured      *)
(* (restart) and the game quit while the threads run                       *)
(***************************************************************************)
\* the machines of the modelled runs: any set of working camera backends
SensingEnvs ==
    [working : SUBSET {CameraBackends[k] : k \in 1..Len(CameraBackends)},
     labels : {{"happy"}}, read_ms : {{Interval}}, work_ms : {{0}},
     faces : {{0, 1}}, enable_camera : {TRUE}]

InitSensing ==
    /\ InitBuffer /\ InitLevel /\ InitSession /\ InitManager /\ InitWrap
    /\ InitHandles
    /\ env \in SensingEnvs
    /\ fg = "menu"
    /\ last_op = "init"
    /\ emotion_detector = 1
    /\ loop_pc = [i \in Detectors |-> IF i = 1 THEN "init" ELSE "unborn"]
    /\ stopper = [i \in Detectors |-> FALSE]

NextSensing ==
    \/ RestartBegin
    \/ RestartCreate
    \/ Quit
    \/ \E i \in Detectors : LoopInitialize(i)
    \/ \E i \in Detectors : LoopAcquire(i)
    \/ \E i \in Detectors : LoopCheck(i)
    \/ \E i \in Detectors : LoopBody(i)

SpecSensing == InitSensing /\ [][NextSensing]_vars

\* the same, with every thread that can take a step of its frame loop
\* taking it in the end: each frame read returns
SpecStop ==
    /\ InitSensing
    /\ [][NextSensing]_vars
    /\ \A i \in Detectors : WF_vars(LoopCheck(i)) /\ WF_vars(LoopBody(i))

(***************************************************************************)
(* One sensing thread on its own, on a machine whose camera works, with    *)
(* frames and inferences of several durations                              *)
(***************************************************************************)
\* cap.read() returns at once, after a third of the interval, after the
\* whole of it; detection and classification take no time or 0.3 s
TimingEnv ==
    [working |-> {CameraBackends[k] : k \in 1..Len(CameraBackends)},
     labels |-> {"happy"},
     read_ms |-> {0, 167, Interval}, work_ms |-> {0, 300},
     faces |-> FaceCounts, enable_camera |-> TRUE]

InitTiming ==
    /\ InitBuffer /\ InitLevel /\ InitSession /\ InitManager /\ InitWrap
    /\ InitHandles
    /\ env = TimingEnv
    /\ fg = "menu"
    /\ last_op = "init"
    /\ emotion_detector = 1
    /\ loop_pc = [i \in Detectors |-> IF i = 1 THEN "init" ELSE "unborn"]
    /\ stopper = [i \in Detectors |-> FALSE]

NextTiming ==
    \/ \E i \in Detectors : LoopInitialize(i)
    \/ \E i \in Detectors : LoopAcquire(i)
    \/ \E i \in Detectors : LoopCheck(i)
    \/ \E i \in Detectors : LoopBody(i)

SpecTiming == InitTiming /\ [][NextTiming]_vars

(***************************************************************************)
(* _wrap_text on its own: a text and a width, wrapped, and then any page   *)
(* of the result joined with single spaces and wrapped again               *)
(***************************************************************************)
\* the characters of the texts: a glyph, the space, a line break
WrapAlphabet == {"a", " ", "\n"}

\* a word wider than the dialogue box
LongWord == [i \in 1..97 |-> "a"]

\* every text of at most MaxTextLen characters, and the long word
WrapTexts ==
    UNION {[1..n -> WrapAlphabet] : n \in 0..MaxTextLen} \cup {LongWord}

\* widths a caller passes: of one and of two glyphs with their spaces, and
\* the one start_dialogue passes
WrapWidths == {30, 40, TextBoxWidth - 40}

\* " ".join(lines)
RECURSIVE JoinLines(_)
JoinLines(lines) ==
    IF lines = <<>> THEN <<>>
    ELSE IF Len(lines) = 1 THEN lines[1]
    ELSE lines[1] \o <<" ">> \o JoinLines(Tail(lines))

InitWrapSpec ==
    /\ InitBuffer /\ InitDetector /\ InitLevel /\ InitSession /\ InitManager
    /\ fg = "wrap"
    /\ last_op = "init"
    /\ \E text \in WrapTexts, max_width \in WrapWidths :
          wrap_call = [kind |-> "input", text |-> text, max_width |-> max_width]

\* pages = self._wrap_text(text, max_width)
WrapCall ==
    /\ wrap_call.kind = "input"
    /\ wrap_call' = [kind |-> "wrap", text |-> wrap_call.text,
                     max_width |-> wrap_call.max_width,
                     pages |-> WrapText(wrap_call.text, wrap_call.max_width)]
    /\ UNCHANGED last_op
    /\ UNCHANGED <<bufferVars, detectorVars, fg, levelVars, sessionVars,
                   clientVars, deviceVars, timingVars>>

\* self._wrap_text(" ".join(page), max_width) for a page of the latest result
Rewrap ==
    /\ wrap_call.kind \in {"wrap", "rewrap"}
    /\ \E p \in 1..Len(wrap_call.pages) :
          LET page == wrap_call.pages[p]
          IN  wrap_call' = [kind |-> "rewrap", text |-> JoinLines(page),
                            max_width |-> wrap_call.max_width,
                            pages |-> WrapText(JoinLines(page),
                                               wrap_call.max_width),
                            origin |-> wrap_call.text,
                            page |-> page]
    /\ UNCHANGED last_op
    /\ UNCHANGED <<bufferVars, detectorVars, fg, levelVars, sessionVars,
                   clientVars, deviceVars, timingVars>>

NextWrap == WrapCall \/ Rewrap

SpecWrap == InitWrapSpec /\ [][NextWrap]_vars
(***************************************************************************)
(* Claims about the emotion history buffer                                 *)
(***************************************************************************)
\* the last n elements of s, all of s when it has fewer
LastN(s, n) ==
    IF Len(s) <= n THEN s ELSE SubSeq(s, Len(s) - n + 1, Len(s))

SixLabels == <<"happy", "sad", "angry", "surprised", "fearful", "neutral">>

\* C1: the buffer never holds more than 5 labels, and after n appends it holds
\* the last min(n, 5) appended labels in the order of the appends; appending
\* happy, sad, angry, surprised, fearful, neutral leaves sad .. neutral.
C1_BufferKeepsLastFive ==
    /\ Len(emotions_deque) <= 5
    /\ Len(emotions_deque) = (IF Len(test_pushed) < 5 THEN Len(test_pushed) ELSE 5)
    /\ emotions_deque = LastN(test_pushed, 5)
    /\ test_pushed = SixLabels =>
          emotions_deque = <<"sad", "angry", "surprised", "fearful", "neutral">>

C1_Witness ==
    /\ test_pushed = SixLabels
    /\ emotions_deque = <<"sad", "angry", "surprised", "fearful", "neutral">>

(***************************************************************************)
(* Claims about the buffer in the game                                     *)
(***************************************************************************)
\* a step of the foreground thread: each of its operations changes its own
\* position, the detector it holds, a stop flag, the session or the shop
\* flag, and no step of a sensing thread changes any of these
ForegroundStep ==
    <<fg, emotion_detector, stopper, ds, shop_active>>'
        # <<fg, emotion_detector, stopper, ds, shop_active>>

\* C2: only the sensing loop mutates the buffer: no step of the foreground
\* (toggle_shop, the overlay's frame, restart_emotion_detector, ...) appends
\* to it, removes from it or clears it.
C2_OnlySensingMutates ==
    [][ForegroundStep => emotions_deque' = emotions_deque]_vars

\* C3: the emotion toggle_shop puts in the request context is the most
\* recently appended label of the buffer, and "neutral" when the buffer is
\* empty.
C3_ContextHasLatestLabel ==
    [][(~ds.active /\ ds'.active) =>
          request_context'.emotion =
              (IF emotions_deque = <<>> THEN "neutral"
               ELSE emotions_deque[Len(emotions_deque)])]_vars

(***************************************************************************)
(* Claims about the dialogue client                                        *)
(***************************************************************************)
RemoteFailures == {"transport_error", "timeout", "no_choices", "null_content"}

\* C4: generate_npc_dialogue never raises, and an Online call whose remote
\* request fails in any way returns exactly the offline rule table's text for
\* the same character name, situation and emotion.
C4_FailureFallsBack ==
    last_call.kind = "call" =>
        /\ last_call.raised = "none"
        /\ (~last_call.offline /\ last_call.remote.kind \in RemoteFailures) =>
              last_call.text = GetFallbackDialogue(last_call.character_name,
                                                   last_call.player_context,
                                                   last_call.emotion)

C4_Witness ==
    /\ last_call.kind = "call"
    /\ ~last_call.offline
    /\ last_call.remote.kind = "null_content"
    /\ last_call.character_name = KW_MERCHANT_PETE
    /\ last_call.emotion = "angry"
    /\ last_call.text = PETE_ANGRY

\* C5: generate_npc_dialogue always returns non-empty text, whatever the mode
\* and whatever the remote call does.
C5_NeverEmpty ==
    last_call.kind = "call" => Len(last_call.text) > 0

\* C6: Offline, two calls with the same character name, emotion and situation
\* return the same text, whatever the role and whatever was called before,
\* and the text is never empty.
C6_OfflineDeterministic ==
    (last_call.kind = "call" /\ last_call.offline) =>
        /\ Len(last_call.text) > 0
        /\ (/\ prev_offline.kind = "call"
            /\ prev_offline.character_name = last_call.character_name
            /\ prev_offline.emotion = last_call.emotion
            /\ prev_offline.player_context = last_call.player_context)
           => prev_offline.text = last_call.text

C6_Witness ==
    /\ last_call.kind = "call" /\ prev_offline.kind = "call"
    /\ last_call.offline /\ prev_offline.offline
    /\ prev_offline.character_name = last_call.character_name
    /\ prev_offline.emotion = last_call.emotion
    /\ prev_offline.player_context = last_call.player_context
    /\ prev_offline.character_role # last_call.character_role
    /\ prev_offline.text = last_call.text

\* C7: once the client is constructed no step changes its mode or its client:
\* every step from then on is a generate_npc_dialogue call, failed or not.
C7_ModeFixed ==
    [][ai_manager.built => ai_manager' = ai_manager]_vars

C7_Witness ==
    /\ ai_manager.built /\ ~ai_manager.fallback_mode /\ ai_manager.client
    /\ last_call.kind = "call"
    /\ last_call.remote.kind = "timeout"
    /\ last_call.raised = "none"

\* the credentials object has a non-empty value for this key
HasField(file, key) ==
    file.kind = "object" /\ key \in DOMAIN file.data /\ Len(file.data[key]) > 0

\* C8: construction never raises; it ends Offline (fallback_mode, no client)
\* when the library is missing, the file is absent, unreadable or not a JSON
\* object, a field is missing or empty, or client construction fails; it ends
\* Online only when both fields are present and construction succeeds.
C8_InitNeverRaises ==
    init_result.kind = "init" =>
        LET complete == /\ HasField(init_result.file, "OPENAI_API_KEY")
                        /\ HasField(init_result.file, "base_url")
            online   == /\ init_result.openai_available
                        /\ complete
                        /\ init_result.construct_exc = "none"
        IN  /\ init_result.raised = "none"
            /\ ai_manager.built
            /\ ~online => (ai_manager.fallback_mode /\ ~ai_manager.client)
            /\ online => (~ai_manager.fallback_mode /\ ai_manager.client)

C8_Witness ==
    /\ init_result.kind = "init"
    /\ init_result.openai_available
    /\ init_result.file.kind = "not_object"
    /\ init_result.raised = "none"
    /\ ai_manager.built /\ ai_manager.fallback_mode /\ ~ai_manager.client

FiveEmotions == {"happy", "sad", "angry", "surprised", "fearful"}

PeteEmotionLine ==
    [e \in FiveEmotions |->
        CASE e = "happy"     -> PETE_HAPPY
          [] e = "sad"       -> PETE_SAD
          [] e = "angry"     -> PETE_ANGRY
          [] e = "surprised" -> PETE_SURPRISED
          [] e = "fearful"   -> PETE_FEARFUL]

\* C9: offline rule table priority for a name containing "Merchant Pete": one
\* of the five emotions selects its line whatever the situation; otherwise
\* "rich" wins over "new"/"starting", which win over the default line.  The
\* scenario (Merchant Pete, "player is just starting out", neutral) on a
\* client constructed without credentials file gives the "new farmer" line,
\* non-empty and under 280 characters.
C9_RuleTablePriority ==
    (/\ last_call.kind = "call" /\ last_call.offline
     /\ Contains(KW_MERCHANT_PETE, last_call.character_name)) =>
        LET e    == last_call.emotion
            s    == last_call.player_context
            rich == Contains(KW_RICH, s)
            new  == Contains(KW_NEW, s) \/ Contains(KW_STARTING, s)
        IN  /\ e \in FiveEmotions => last_call.text = PeteEmotionLine[e]
            /\ (e \notin FiveEmotions /\ rich) => last_call.text = PETE_RICH
            /\ (e \notin FiveEmotions /\ ~rich /\ new) => last_call.text = PETE_NEW
            /\ (e \notin FiveEmotions /\ ~rich /\ ~new) =>
                  last_call.text = PETE_DEFAULT
            /\ (/\ last_call.character_name = KW_MERCHANT_PETE
                /\ s = SCENARIO_SITUATION /\ e = "neutral") =>
                  /\ last_call.text = PETE_NEW
                  /\ Len(last_call.text) > 0
                  /\ Len(last_call.text) < 280

C9_Witness ==
    /\ init_result.kind = "init" /\ init_result.file.kind = "absent"
    /\ last_call.kind = "call" /\ last_call.offline
    /\ last_call.character_name = KW_MERCHANT_PETE
    /\ last_call.character_role = "friendly trader"
    /\ last_call.player_context = SCENARIO_SITUATION
    /\ last_call.emotion = "neutral"
    /\ last_call.text = PETE_NEW

(***************************************************************************)
(* Claims about the dialogue session                                       *)
(***************************************************************************)
\* the latest step was a start_dialogue call, given a callback, that obtained
\* empty or whitespace-only text
StartedWithBlankText ==
    /\ last_op = "start_dialogue"
    /\ started.kind = "start"
    /\ Strip(started.text) = <<>>
    /\ started.on_finish # "None"

Invocations(session) ==
    IF session.on_finish_callback # "None" THEN 1 ELSE 0

\* C11: a session with P >= 1 pages starts Active on page 0 with no callback
\* invoked; a next_line call on page k with k + 1 < P leaves it Active on page
\* k + 1 with the same pages and invokes nothing; the next_line call on the
\* last page makes it Inactive and invokes onFinish exactly once; while the
\* session is Active onFinish has not been invoked and is still stored.
C11_AdvanceThroughPages ==
    [][/\ (last_op' = "start_dialogue" /\ ds'.active) =>
              /\ Len(ds'.current_dialogue) >= 1
              /\ ds'.dialogue_index = 0
              /\ finish_count' = 0
       /\ ds.active =>
              /\ ds.dialogue_index < Len(ds.current_dialogue)
              /\ finish_count = 0
              /\ ds.on_finish_callback = started.on_finish
       /\ (last_op' = "next_line" /\ ds.active) =>
              IF ds.dialogue_index + 1 < Len(ds.current_dialogue)
              THEN /\ ds' = [ds EXCEPT !.dialogue_index = @ + 1]
                   /\ finish_count' = 0
              ELSE /\ ~ds'.active
                   /\ finish_count' = Invocations(ds)]_vars

\* two next_line calls into a session of three pages that has a callback
C11_Witness ==
    /\ last_op = "next_line"
    /\ was_active
    /\ ds.active
    /\ Len(ds.current_dialogue) = 3
    /\ ds.dialogue_index = 2
    /\ ds.on_finish_callback = "on_finish"
    /\ finish_count = 0

\* C12: on an Inactive session next_line and end_dialogue change nothing and
\* invoke nothing: the session is still Inactive with no pages, page index 0
\* and no stored callback, and the count of invocations is what it was.
C12_InactiveCallsAreNoOps ==
    [][(last_op' \in {"next_line", "end_dialogue"} /\ ~ds.active) =>
          /\ ~ds'.active
          /\ ds'.current_dialogue = <<>>
          /\ ds'.dialogue_index = 0
          /\ ds'.on_finish_callback = "None"
          /\ ds' = ds
          /\ finish_count' = finish_count
          /\ shop_active' = shop_active]_vars

\* a next_line call on a session that had ended and had invoked its callback
C12_Witness ==
    /\ last_op = "next_line"
    /\ ~was_active
    /\ started.kind = "start"
    /\ started.on_finish = "on_finish"
    /\ ~ds.active
    /\ finish_count = 1

(***************************************************************************)
(* Claims about the sensing loop                                           *)
(***************************************************************************)
\* the order of the backends the claim states
ClaimedOrder == <<"CAP_DSHOW", "CAP_MSMF", "default">>

\* thread i is in the frame loop
InFrameLoop(i) == loop_pc[i] \in {"top", "backoff", "body"}

\* C16: camera acquisition tries DirectShow, Media Foundation and the default
\* backend in this order; each try starts with no capture held and no device
\* open (the rejected one before it has been released); a backend that works
\* ends the acquisition with its capture held and the frame loop entered, one
\* that does not leaves no device open; after the third failure run ends in
\* Stopped holding nothing, the frame loop not entered. A thread in the frame
\* loop holds the first backend of the order that works.
C16_BackendsInOrder ==
    [][\A i \in Detectors :
          /\ (loop_pc[i] = "camera" /\ tries'[i] # tries[i]) =>
                LET backend == ClaimedOrder[tries[i] + 1]
                IN  /\ tries'[i] = tries[i] + 1
                    /\ cap[i] = "None"
                    /\ open_handles[i] = {}
                    /\ IF backend \in env.working
                       THEN /\ cap'[i] = backend
                            /\ open_handles'[i] = {backend}
                            /\ loop_pc'[i] = "top"
                       ELSE /\ cap'[i] = "None"
                            /\ open_handles'[i] = {}
                            /\ loop_pc'[i] = IF tries[i] + 1 = 3 THEN "stopped"
                                             ELSE "camera"
          /\ InFrameLoop(i) =>
                /\ cap[i] = ClaimedOrder[tries[i]]
                /\ cap[i] \in env.working
                /\ \A k \in 1..(tries[i] - 1) : ClaimedOrder[k] \notin env.working
          /\ (loop_pc[i] = "camera" /\ loop_pc'[i] = "stopped") =>
                /\ tries'[i] = 3
                /\ env.working = {}]_vars

\* a thread in the frame loop on the default backend, reached after DirectShow
\* and Media Foundation were rejected
C16_Witness ==
    \E i \in Detectors :
       /\ InFrameLoop(i)
       /\ tries[i] = 3
       /\ cap[i] = "default"
       /\ open_handles[i] = {"default"}

\* the third failure: run has ended without a capture
C16_WitnessAllFail ==
    \E i \in Detectors :
       /\ loop_pc[i] = "stopped"
       /\ tries[i] = 3
       /\ cap[i] = "None"

\* C17: when loading the classifier or the face locator fails, the thread
\* goes from Initializing to Stopped, having tried no backend, opened no
\* device and pushed no label.
C17_LoadFailureStops ==
    [][\A i \in Detectors :
          (loop_pc[i] = "init" /\ loop_pc'[i] \notin {"init", "camera"}) =>
             /\ loop_pc'[i] = "stopped"
             /\ tries'[i] = 0
             /\ cap'[i] = "None"
             /\ open_handles'[i] = {}
             /\ emotions_deque' = emotions_deque]_vars

\* C18: run never ends by an uncaught exception: no thread is ever crashed.
C18_NeverCrashes ==
    \A i \in Detectors : loop_pc[i] # "crashed"

\* C19: a thread that has reached Stopped has no capture device open,
\* whichever way it left: stop flag observed, exception in the frame loop,
\* restart.
C19_ReleasedWhenStopped ==
    \A i \in Detectors : loop_pc[i] = "stopped" => open_handles[i] = {}

\* a thread that had acquired a capture and was told to stop has stopped
C19_Witness ==
    \E i \in Detectors :
       /\ loop_pc[i] = "stopped"
       /\ cap[i] # "None"
       /\ stopper[i]
       /\ open_handles[i] = {}

\* C20: an iteration whose read fails pushes no label and releases nothing,
\* and leaves the thread in the frame loop (at the backoff before continue);
\* the step after it is the check of the stop flag, which pushes nothing.
C20_FailedReadContinues ==
    [][\A i \in Detectors :
          /\ (loop_pc[i] = "body" /\ loop_pc'[i] = "backoff") =>
                /\ emotions_deque' = emotions_deque
                /\ open_handles' = open_handles
                /\ cap' = cap
          /\ (loop_pc[i] = "backoff" /\ loop_pc'[i] # "backoff") =>
                /\ loop_pc'[i] = IF stopper[i] THEN "stopped" ELSE "body"
                /\ emotions_deque' = emotions_deque
          /\ loop_pc[i] = "backoff" => open_handles[i] = {cap[i]}]_vars

\* a failed read after two labels were pushed: they are still the buffer
C20_Witness ==
    \E i \in Detectors :
       /\ loop_pc[i] = "backoff"
       /\ ~stopper[i]
       /\ emotions_deque = <<"happy", "happy">>

(***************************************************************************)
(* Claims about pagination                                                 *)
(***************************************************************************)
\* the lines of all pages, in order
RECURSIVE AllLines(_)
AllLines(pages) ==
    IF pages = <<>> THEN <<>> ELSE pages[1] \o AllLines(Tail(pages))

\* the pieces between the spaces of all lines, in order
RECURSIVE LineWords(_)
LineWords(lines) ==
    IF lines = <<>> THEN <<>> ELSE Split(lines[1]) \o LineWords(Tail(lines))

\* the words that are not empty
NonEmptyWords(words) == SelectSeq(words, LAMBDA w : w # <<>>)

\* the words stripped of the whitespace at their ends, blank ones dropped
RECURSIVE StrippedWords(_)
StrippedWords(words) ==
    IF words = <<>> THEN <<>>
    ELSE (IF Strip(words[1]) # <<>> THEN <<Strip(words[1])>> ELSE <<>>)
         \o StrippedWords(Tail(words))

\* pages of at most four lines, all but the last of exactly four
PagesOfFour(pages) ==
    /\ \A p \in 1..Len(pages) : Len(pages[p]) \in 1..4
    /\ \A p \in 1..(Len(pages) - 1) : Len(pages[p]) = 4

\* the latest step was a _wrap_text call
Wrapped == wrap_call.kind \in {"wrap", "rewrap"}

\* C13 as stated: every page has between 1 and 4 lines, every page but the
\* last has exactly 4, and the lines of all pages read in order are the
\* non-empty words of the input text in their order.
C13_PagesKeepWords ==
    Wrapped =>
       /\ PagesOfFour(wrap_call.pages)
       /\ LineWords(AllLines(wrap_call.pages))
             = NonEmptyWords(Split(wrap_call.text))

\* C13 as amended: every page has between 1 and 4 lines and every page but
\* the last has exactly 4; a text with a word that is not blank gives lines
\* that read in order are its words, stripped of the whitespace at their
\* ends, in their order; a text with no such word gives the single page with
\* the single line "No dialogue available.".
C13_PagesKeepVisibleWords ==
    Wrapped =>
       /\ PagesOfFour(wrap_call.pages)
       /\ IF StrippedWords(Split(wrap_call.text)) = <<>>
          THEN wrap_call.pages = <<<<NO_DIALOGUE>>>>
          ELSE StrippedWords(LineWords(AllLines(wrap_call.pages)))
                  = StrippedWords(Split(wrap_call.text))

\* a text of five words that wraps into five lines: a page of four, a page
\* of one
C13_Witness ==
    /\ wrap_call.kind = "wrap"
    /\ wrap_call.text = <<"a", " ", "a", " ", "a", " ", "a", " ", "a">>
    /\ Len(wrap_call.pages) = 2
    /\ Len(wrap_call.pages[1]) = 4
    /\ Len(wrap_call.pages[2]) = 1

\* C14: every line of every page measures no more than the maximum width.
C14_LinesFit ==
    Wrapped =>
       \A p \in 1..Len(wrap_call.pages) :
          \A l \in 1..Len(wrap_call.pages[p]) :
             FontSize(wrap_call.pages[p][l]) <= wrap_call.max_width

\* words separated by single spaces, none beginning or ending in whitespace
SingleSpaced(text) ==
    \A k \in 1..Len(Split(text)) :
       /\ Split(text)[k] # <<>>
       /\ Strip(Split(text)[k]) = Split(text)[k]

\* C15 as stated: a page joined with single spaces and wrapped again with the
\* same width gives one page with the same lines.
C15_RewrapSamePage ==
    wrap_call.kind = "rewrap" => wrap_call.pages = <<wrap_call.page>>

\* C15 as amended: a page of a text whose words are separated by single
\* spaces, none beginning or ending in whitespace, joined with single spaces
\* and wrapped again with the same width gives one page with the same lines.
C15_RewrapSingleSpaced ==
    (wrap_call.kind = "rewrap" /\ SingleSpaced(wrap_call.origin)) =>
       wrap_call.pages = <<wrap_call.page>>

\* the first page, of four lines, of a text of five words wrapped again
C15_Witness ==
    /\ wrap_call.kind = "rewrap"
    /\ wrap_call.origin = <<"a", " ", "a", " ", "a", " ", "a", " ", "a">>
    /\ Len(wrap_call.page) = 4
    /\ wrap_call.pages = <<wrap_call.page>>

(***************************************************************************)
(* Claims about the timing of the sensing loop, its stop and its restart   *)
(***************************************************************************)
\* thread i completes an iteration of the frame loop that had a frame
FrameStep(i) == loop_pc[i] = "body" /\ loop_pc'[i] = "top"

\* C21 (as stated): a loop appends a label only in an iteration where at
\* least 0.5 s has passed since its previous inference attempt and a face was
\* found, two appends of one loop are at least 0.5 s apart, and an iteration
\* that finds no face appends nothing.
C21_PushesHalfSecondApart ==
    [][\A i \in Detectors :
          FrameStep(i) =>
             /\ iteration'[i].pushed =>
                   /\ iteration'[i].elapsed >= Interval
                   /\ iteration'[i].faces > 0
                   /\ iteration'[i].push_gap >= Interval
             /\ ~iteration'[i].pushed => emotions_deque' = emotions_deque
             /\ iteration'[i].faces = 0 => ~iteration'[i].pushed]_vars

\* C21 (amended): a loop appends a label only in an iteration where at least
\* 0.5 s has passed between the timestamp of its previous inference attempt
\* and the timestamp of this frame, and a face was found; the frames of two
\* appends of one loop are timestamped at least 0.5 s apart; an iteration
\* that finds no face appends nothing.
C21_FramesHalfSecondApart ==
    [][\A i \in Detectors :
          FrameStep(i) =>
             /\ iteration'[i].pushed =>
                   /\ iteration'[i].elapsed >= Interval
                   /\ iteration'[i].faces > 0
                   /\ iteration'[i].frame_gap >= Interval
             /\ ~iteration'[i].pushed => emotions_deque' = emotions_deque
             /\ iteration'[i].faces = 0 => ~iteration'[i].pushed]_vars

\* a second append whose frame is 0.5 s after the frame of the first, made
\* less than 0.5 s after the first append
C21_Witness ==
    \E i \in Detectors :
       /\ iteration[i].kind = "frame"
       /\ iteration[i].pushed
       /\ iteration[i].frame_gap = Interval
       /\ iteration[i].push_gap < Interval
       /\ Len(emotions_deque) = 2

\* C22: a thread in its frame loop whose stop() has been called reaches
\* Stopped with its device released; it observes the flag at its next check,
\* which appends nothing, so that it appends at most the one label of the
\* iteration in progress.
C22_StopReachesStopped ==
    /\ [][\A i \in Detectors :
             (stopper[i] /\ loop_pc[i] \in {"top", "backoff"}
                /\ loop_pc'[i] # loop_pc[i]) =>
                /\ loop_pc'[i] = "stopped"
                /\ emotions_deque' = emotions_deque]_vars
    /\ \A i \in Detectors :
          (stopper[i] /\ InFrameLoop(i)) ~>
             (loop_pc[i] = "stopped" /\ open_handles[i] = {})

\* C23: a restart signals the current loop to stop when it is alive and
\* waits in a join that always returns (the thread has ended or the timeout
\* has passed): the creation of the new loop is possible in every state of
\* the wait. Whether or not the old loop has reached Stopped, exactly one
\* new thread is created and started, on the same buffer, with its stop flag
\* clear; no other thread changes; the caller is back at the menu.
C23_RestartCreatesOneLoop ==
    /\ [](fg = "joining" => ENABLED RestartCreate)
    /\ [][/\ (fg = "menu" /\ fg' = "joining") =>
                /\ IsAlive(emotion_detector)
                /\ stopper'[emotion_detector]
                /\ emotion_detector' = emotion_detector
                /\ loop_pc' = loop_pc
          /\ emotion_detector' # emotion_detector =>
                /\ fg \in {"menu", "joining"}
                /\ fg = "menu" =>
                      (emotion_detector = 0 \/ ~IsAlive(emotion_detector))
                /\ fg' = "menu"
                /\ loop_pc[emotion_detector'] = "unborn"
                /\ loop_pc'[emotion_detector'] = "init"
                /\ ~stopper'[emotion_detector']
                /\ \A i \in Detectors \ {emotion_detector'} :
                      loop_pc'[i] = loop_pc[i]
                /\ emotions_deque' = emotions_deque]_vars

\* a restart has created the second loop while the first, told to stop, is
\* still in its frame loop: the wait has timed out
C23_Witness ==
    /\ fg = "menu"
    /\ emotion_detector = 2
    /\ loop_pc[2] = "init"
    /\ InFrameLoop(1)
    /\ stopper[1]

\* the threads that hold a capture device or are in their frame loop
Sensing == {i \in Detectors : open_handles[i] # {} \/ InFrameLoop(i)}

\* C24: at most one sensing loop at a time holds a capture device and
\* appends to the buffer, over every sequence of start, restart and quit.
C24_OneSensingLoop ==
    Cardinality(Sensing) <= 1

(***************************************************************************)
(* Claims about Level: dialogue, shop and camera setting                   *)
(***************************************************************************)
\* a step of Level.run that did something
LevelStep ==
    <<ds, shop_active, request_context, processed, started, finish_count>>'
        # <<ds, shop_active, request_context, processed, started, finish_count>>

\* C25: a frame of Level.run that begins with the dialogue active updates
\* the dialogue only: no sprite (player) update, so no player input and no
\* new trader interaction (no start_dialogue, no new request context), no
\* plant collision, no plant growth, no shop menu update.
C25_DialogueFrameOnly ==
    [][(fg = "game" /\ ds.active /\ LevelStep) =>
          /\ processed' = {"dialogue"}
          /\ request_context' = request_context
          /\ started' = started
          /\ last_op' \in {last_op, "next_line"}]_vars

\* the frame in which the player ended the trader dialogue: the shop was
\* opened by the callback and nothing but the dialogue was updated
C25_Witness ==
    /\ fg = "game"
    /\ processed = {"dialogue"}
    /\ last_op = "next_line"
    /\ ~ds.active
    /\ shop_active

\* C26: whenever the session is Active its page list is non-empty and
\* 0 <= dialogue_index < number of pages; whenever it is Inactive the page
\* list is empty, dialogue_index is 0 and no callback is stored.
C26_SessionInvariant ==
    IF ds.active
    THEN /\ ds.current_dialogue # <<>>
         /\ 0 <= ds.dialogue_index
         /\ ds.dialogue_index < Len(ds.current_dialogue)
    ELSE /\ ds.current_dialogue = <<>>
         /\ ds.dialogue_index = 0
         /\ ds.on_finish_callback = "None"

\* a session on the second of its two pages, its callback stored
C26_Witness ==
    /\ last_op = "next_line"
    /\ ds.active
    /\ Len(ds.current_dialogue) = 2
    /\ ds.dialogue_index = 1
    /\ ds.on_finish_callback = "open_trader_menu"

\* C27: completion is safe when the callback calls back into the session: an
\* Active session holds the callback its start_dialogue call was given (also
\* when that call was made by the callback of the session before it), and
\* the callback of a session is invoked at most once (also when it calls
\* end_dialogue).
C27_ReentrantCompletionSafe ==
    /\ (ds.active /\ started.kind = "start") =>
          ds.on_finish_callback = started.on_finish
    /\ finish_count <= 1

\* C28: the dialogue session and the shop menu are never active together,
\* and the shop becomes active only in the step that ends a trader dialogue
\* session: the session was Active and is Inactive, and its callback,
\* Level.open_trader_menu, has been invoked once.
C28_DialogueXorShop ==
    /\ [](~(ds.active /\ shop_active))
    /\ [][(~shop_active /\ shop_active') =>
             /\ ds.active /\ ~ds'.active
             /\ ds.on_finish_callback = "open_trader_menu"
             /\ started.on_finish = "open_trader_menu"
             /\ finish_count' = finish_count + 1
             /\ finish_count' = 1]_vars

\* the shop is open after the trader dialogue of a sad player was ended
C28_Witness ==
    /\ shop_active
    /\ ~ds.active
    /\ finish_count = 1
    /\ request_context # NoContext
    /\ request_context.emotion = "sad"

\* C29: when the enable_camera setting is false at startup, no sensing
\* thread is ever created or started and no capture device is ever opened,
\* whatever is done in the menus.
C29_NoCameraWhenDisabled ==
    ~env.enable_camera =>
       /\ emotion_detector = 0
       /\ \A i \in Detectors : loop_pc[i] = "unborn" /\ open_handles[i] = {}

\* C30: all components use one closed emotion vocabulary: every label in
\* the buffer that has an overlay icon selects its own guidance hint and its
\* own Merchant Pete fallback line in the dialogue client, and the emotion
\* of every request context the foreground builds (the test labels of
\* Level.toggle_shop included) is one the dialogue client recognises.
C30_ClosedVocabulary ==
    /\ \A k \in DOMAIN emotions_deque :
          emotions_deque[k] \in OverlayIcons =>
             /\ EmotionHint(emotions_deque[k]) = emotions_deque[k]
             /\ GetFallbackDialogue(KW_MERCHANT_PETE, <<>>, emotions_deque[k])
                   # PETE_DEFAULT
    /\ request_context # NoContext =>
          request_context.emotion \in EmotionGuidanceKeys
=============================================================================
